---- MODULE Spec2Model ----
(***************************************************************************)
(* A model of the RDF ontology caching proxy: the MIME registry, the cache *)
(* layout, the downloader, the converter registry with its dispatch, and   *)
(* the request handler that combines them.                                 *)
(***************************************************************************)
EXTENDS Integers, Sequences, FiniteSets, TLC

(***************************************************************************)
(* MIME registry (crates/mime/src/mime.rs)                                 *)
(***************************************************************************)

\* enum Type
Format ==
    { "BinaryRdf", "Csvw", "Hdt", "HexTuples", "Html", "JsonLd", "Manchester",
      "Microdata", "N3", "NdJsonLd", "NQuads", "NQuadsStar", "NTriples",
      "NTriplesStar", "OwlFunctional", "OwlXml", "RdfA", "RdfJson", "RdfXml",
      "TriG", "TriGStar", "TriX", "Tsvw", "Turtle", "TurtleStar", "YamlLd" }

\* Absent value of an Option
None == "None"

\* Type::is_machine_readable
is_machine_readable(f) == f # "Html"

\* Type::mime_type: the (primary) MIME type as a string
mime_type(f) ==
    CASE f = "BinaryRdf" -> "application/x-binary-rdf"
      [] f = "Csvw" -> "text/csv"
      [] f = "HexTuples" -> "application/hex+x-ndjson"
      [] f = "Html" -> "text/html"
      [] f = "JsonLd" -> "application/ld+json"
      [] f = "Manchester" -> "text/owl-manchester"
      [] f = "Microdata" -> "application/x-microdata"
      [] f = "N3" -> "text/rdf+n3"
      [] f = "NdJsonLd" -> "application/x-ld+ndjson"
      [] f = "NQuads" -> "application/n-quads"
      [] f = "NQuadsStar" -> "application/n-quadsstar"
      [] f = "NTriples" -> "application/n-triples"
      [] f = "NTriplesStar" -> "application/n-triplesstar"
      [] f = "OwlFunctional" -> "text/owl-functional"
      [] f = "OwlXml" -> "application/owl+xml"
      [] f = "RdfA" -> "text/html"
      [] f = "RdfJson" -> "application/rdf+json"
      [] f \in {"RdfXml", "Hdt"} -> "application/rdf+xml"
      [] f = "TriG" -> "text/trig"
      [] f = "TriGStar" -> "application/x-trigstar"
      [] f = "TriX" -> "application/trix"
      [] f = "Tsvw" -> "text/tab-separated-values"
      [] f = "Turtle" -> "text/turtle"
      [] f = "TurtleStar" -> "text/x-turtlestar"
      [] f = "YamlLd" -> "application/ld+yaml"

\* Type::file_ext: the most common file extension of a format
file_ext(f) ==
    CASE f = "BinaryRdf" -> "brf"
      [] f = "Csvw" -> "csvw"
      [] f = "Hdt" -> "hdt"
      [] f = "HexTuples" -> "hext"
      [] f \in {"Html", "Microdata", "RdfA"} -> "html"
      [] f = "JsonLd" -> "jsonld"
      [] f = "Manchester" -> "omn"
      [] f = "N3" -> "n3"
      [] f = "NdJsonLd" -> ".ndjsonld"
      [] f = "NQuads" -> "nq"
      [] f = "NQuadsStar" -> "nqs"
      [] f = "NTriples" -> "nt"
      [] f = "NTriplesStar" -> "nts"
      [] f = "OwlFunctional" -> "ofn"
      [] f = "OwlXml" -> "owx"
      [] f = "RdfJson" -> "rj"
      [] f = "RdfXml" -> "rdf"
      [] f = "TriG" -> "trig"
      [] f = "TriGStar" -> "trigs"
      [] f = "TriX" -> "trix"
      [] f = "Tsvw" -> "tsvw"
      [] f = "Turtle" -> "ttl"
      [] f = "TurtleStar" -> "ttls"
      [] f = "YamlLd" -> "yamlld"

\* A from_file_ext that takes the extension of (X)HTML for that of an XML
\* serialization of RDF
from_file_ext_HtmlAsXml(e) ==
    CASE e \in {"html", "xhtml", "htm", "rdf", "rdfs", "owl", "xml"} -> "RdfXml"
      [] e = "ttl" -> "Turtle"
      [] OTHER -> None

\* Type::from_file_ext on an already lower-cased extension; None stands for
\* Err(UnrecognizedFileExtension)
from_file_ext(e) ==
    CASE e = "brf" -> "BinaryRdf"
      [] e \in {"csvw", "csv"} -> "Csvw"
      [] e = "hdt" -> "Hdt"
      [] e = "hext" -> "HexTuples"
      [] e \in {"html", "xhtml", "htm"} -> "Html"
      [] e = "jsonld" -> "JsonLd"
      [] e = "omn" -> "Manchester"
      [] e = "n3" -> "N3"
      [] e \in {".ndjsonld", ".jsonl", ".ndjson"} -> "NdJsonLd"
      [] e = "nq" -> "NQuads"
      [] e = "nqs" -> "NQuadsStar"
      [] e = "nt" -> "NTriples"
      [] e = "nts" -> "NTriplesStar"
      [] e = "ofn" -> "OwlFunctional"
      [] e = "owx" -> "OwlXml"
      [] e = "rj" -> "RdfJson"
      [] e \in {"rdf", "rdfs", "owl", "xml"} -> "RdfXml"
      [] e = "trig" -> "TriG"
      [] e = "trigs" -> "TriGStar"
      [] e = "trix" -> "TriX"
      [] e \in {"tsvw", "tsv"} -> "Tsvw"
      [] e = "ttl" -> "Turtle"
      [] e = "ttls" -> "TurtleStar"
      [] e \in {"yamlld", "ymlld"} -> "YamlLd"
      [] OTHER -> None

\* A parsed mediatype::MediaType without its parameters (its essence):
\* top-level type, subtype and suffix ("" when there is none)
MT(ty, subty, suffix) == [ty |-> ty, subty |-> subty, suffix |-> suffix]

MEDIA_TYPE_TEXT_PLAIN == MT("text", "plain", "")

\* The pairs MEDIA_TYPE_2_MIME is collected from, in source order
MEDIA_TYPE_2_MIME ==
    << <<MT("application", "x-binary-rdf", ""), "BinaryRdf">>,
       <<MT("text", "csv", ""), "Csvw">>,
       <<MT("application", "hex", "x-ndjson"), "HexTuples">>,
       <<MT("text", "html", ""), "Html">>,
       <<MT("application", "xhtml", "xml"), "Html">>,
       <<MT("application", "ld", "json"), "JsonLd">>,
       <<MT("text", "json-ld", ""), "JsonLd">>,
       <<MT("text", "owl-manchester", ""), "Manchester">>,
       <<MT("text", "n3", ""), "N3">>,
       <<MT("text", "rdf", "n3"), "N3">>,
       <<MT("application", "x-ld+ndjson", ""), "NdJsonLd">>,
       <<MT("application", "n-quads", ""), "NQuads">>,
       <<MT("text", "x-nquads", ""), "NQuads">>,
       <<MT("text", "n-quads", ""), "NQuads">>,
       <<MT("application", "n-quadsstar", ""), "NQuadsStar">>,
       <<MT("application", "n-triples", ""), "NTriples">>,
       <<MT("application", "n-triplesstar", ""), "NTriplesStar">>,
       <<MT("application", "owl", "functional"), "OwlFunctional">>,
       <<MT("application", "owl", "xml"), "OwlXml">>,
       <<MT("application", "rdf", "json"), "RdfJson">>,
       <<MT("application", "rdf", "xml"), "RdfXml">>,
       <<MT("application", "xml", ""), "RdfXml">>,
       <<MT("text", "xml", ""), "RdfXml">>,
       <<MT("application", "trig", ""), "TriG">>,
       <<MT("application", "x-trig", ""), "TriG">>,
       <<MT("application", "x-trigstar", ""), "TriGStar">>,
       <<MT("application", "trix", ""), "TriX">>,
       <<MT("text", "tab-separated-values", ""), "Tsvw">>,
       <<MT("text", "turtle", ""), "Turtle">>,
       <<MT("application", "x-turtle", ""), "Turtle">>,
       <<MT("text", "x-turtlestar", ""), "TurtleStar">>,
       <<MT("application", "x-turtlestar", ""), "TurtleStar">>,
       <<MT("application", "ld", "yaml"), "YamlLd">> >>

\* media_type2type: the table's entry for a media type, None when it has none
media_type2type(mt) ==
    LET hits == { i \in 1..Len(MEDIA_TYPE_2_MIME) : MEDIA_TYPE_2_MIME[i][1] = mt }
    IN  IF hits = {} THEN None
        ELSE MEDIA_TYPE_2_MIME[CHOOSE i \in hits : \A j \in hits : j <= i][2]

\* Results of the parsing functions that are errors
CouldBeAny == "Err:CouldBeAny"
UnrecognizedContentType == "Err:UnrecognizedContentType"
InvalidFormat == "Err:InvalidFormat"
UnidentifiedContent == "Err:UnidentifiedContent"

\* Type::from_media_type, applied to the essence of a media type
from_media_type(mt) ==
    IF mt = MEDIA_TYPE_TEXT_PLAIN THEN CouldBeAny
    ELSE IF media_type2type(mt) = None THEN UnrecognizedContentType
    ELSE media_type2type(mt)

\* The formats a MIME string can be parsed to (the range of the table)
ParsableFormat == { MEDIA_TYPE_2_MIME[i][2] : i \in 1..Len(MEDIA_TYPE_2_MIME) }

\* Type::mime_types: all the MIME types of a format, as strings
mime_types(f) ==
    CASE f = "BinaryRdf" -> <<"application/x-binary-rdf">>
      [] f = "Csvw" -> <<"text/csv">>
      [] f = "HexTuples" -> <<"application/hex+x-ndjson">>
      [] f = "Html" -> <<"text/html", "application/xhtml+xml">>
      [] f = "JsonLd" -> <<"application/ld+json", "application/json-ld">>
      [] f = "Manchester" -> <<"text/owl-manchester">>
      [] f = "Microdata" -> <<"application/x-microdata">>
      [] f = "N3" -> <<"text/rdf+n3", "text/n3">>
      [] f = "NdJsonLd" -> <<"application/x-ld+ndjson">>
      [] f = "NQuads" -> <<"application/n-quads">>
      [] f = "NQuadsStar" -> <<"application/n-quadsstar">>
      [] f = "NTriples" -> <<"application/n-triples">>
      [] f = "NTriplesStar" -> <<"application/n-triplesstar">>
      [] f = "OwlFunctional" -> <<"text/owl-functional">>
      [] f = "OwlXml" -> <<"application/owl+xml">>
      [] f = "RdfA" -> <<"text/html">>
      [] f = "RdfJson" -> <<"application/rdf+json">>
      [] f \in {"RdfXml", "Hdt"} -> <<"application/rdf+xml">>
      [] f = "TriG" -> <<"text/trig">>
      [] f = "TriGStar" -> <<"application/x-trigstar">>
      [] f = "TriX" -> <<"application/trix">>
      [] f = "Tsvw" -> <<"text/tab-separated-values">>
      [] f = "Turtle" -> <<"text/turtle">>
      [] f = "TurtleStar" -> <<"text/x-turtlestar", "application/x-turtlestar">>
      [] f = "YamlLd" -> <<"application/ld+yaml">>

\* Type::file_exts: all the file extensions of a format
file_exts(f) ==
    CASE f = "BinaryRdf" -> <<"brf">>
      [] f = "Csvw" -> <<"csvw", "csv">>
      [] f = "Hdt" -> <<"hdt">>
      [] f = "HexTuples" -> <<"hext">>
      [] f \in {"Html", "Microdata", "RdfA"} -> <<"html", "xhtml", "htm">>
      [] f = "JsonLd" -> <<"jsonld">>
      [] f = "Manchester" -> <<"omn">>
      [] f = "N3" -> <<"n3">>
      [] f = "NdJsonLd" -> <<".ndjsonld", ".jsonl", ".ndjson">>
      [] f = "NQuads" -> <<"nq">>
      [] f = "NQuadsStar" -> <<"nqs">>
      [] f = "NTriples" -> <<"nt">>
      [] f = "NTriplesStar" -> <<"nts">>
      [] f = "OwlFunctional" -> <<"ofn">>
      [] f = "OwlXml" -> <<"owx", "xml">>
      [] f = "RdfJson" -> <<"rj">>
      [] f = "RdfXml" -> <<"rdf", "rdfs", "owl", "xml">>
      [] f = "TriG" -> <<"trig">>
      [] f = "TriGStar" -> <<"trigs">>
      [] f = "TriX" -> <<"trix", "xml">>
      [] f = "Tsvw" -> <<"tsvw", "tsv">>
      [] f = "Turtle" -> <<"ttl">>
      [] f = "TurtleStar" -> <<"ttls">>
      [] f = "YamlLd" -> <<"yamlld", "ymlld">>

\* The elements of a sequence
Range(q) == { q[i] : i \in 1..Len(q) }

\* The i-th character of a string
CharAt(s, i) == SubSeq(s, i, i)

\* str::find and str::rfind of a character: its first and its last
\* position in the string, 0 when it does not occur
Find(s, c) ==
    LET hits == { i \in 1..Len(s) : CharAt(s, i) = c }
    IN  IF hits = {} THEN 0 ELSE CHOOSE i \in hits : \A j \in hits : i <= j

RFind(s, c) ==
    LET hits == { i \in 1..Len(s) : CharAt(s, i) = c }
    IN  IF hits = {} THEN 0 ELSE CHOOSE i \in hits : \A j \in hits : j <= i

\* str::split on a character: the pieces between its occurrences, in order
RECURSIVE split(_, _)
split(s, c) ==
    IF Find(s, c) = 0 THEN << s >>
    ELSE << SubSeq(s, 1, Find(s, c) - 1) >>
         \o split(SubSeq(s, Find(s, c) + 1, Len(s)), c)

\* A string without the blanks at its start
RECURSIVE TrimStart(_)
TrimStart(s) ==
    IF Len(s) > 0 /\ CharAt(s, 1) = " " THEN TrimStart(SubSeq(s, 2, Len(s))) ELSE s

\* The characters of the names of a media type (RFC 6838, restricted-name),
\* in lower case, without the "+" that separates subtype and suffix
NameChar ==
    { "a", "b", "c", "d", "e", "f", "g", "h", "i", "j", "k", "l", "m", "n",
      "o", "p", "q", "r", "s", "t", "u", "v", "w", "x", "y", "z",
      "0", "1", "2", "3", "4", "5", "6", "7", "8", "9",
      "-", ".", "_", "!", "#", "$", "&", "^" }

IsName(s) == Len(s) > 0 /\ \A i \in 1..Len(s) : CharAt(s, i) \in NameChar

\* A parameter of a media type: name "=" value, after optional blanks
IsParam(p) ==
    LET t == TrimStart(p)
        eq == Find(t, "=")
    IN  /\ eq > 1 /\ eq < Len(t)
        /\ IsName(SubSeq(t, 1, eq - 1))
        /\ IsName(SubSeq(t, eq + 1, Len(t)))

\* MediaType::parse: type "/" subtype, a suffix after the last "+" of the
\* subtype, then ";"-separated parameters. << >> stands for a
\* MediaTypeError, else the one element holds the names and whether there
\* are parameters
MediaType_parse(s) ==
    LET slash == Find(s, "/")
        ty == SubSeq(s, 1, slash - 1)
        parts == split(SubSeq(s, slash + 1, Len(s)), ";")
        full == Head(parts)
        plus == RFind(full, "+")
        subty == IF plus = 0 THEN full ELSE SubSeq(full, 1, plus - 1)
        suffix == IF plus = 0 THEN "" ELSE SubSeq(full, plus + 1, Len(full))
    IN  IF slash = 0 THEN << >>
        ELSE IF ~IsName(ty) \/ ~IsName(subty) THEN << >>
        ELSE IF plus # 0 /\ ~IsName(suffix) THEN << >>
        ELSE IF \E i \in 2..Len(parts) : ~IsParam(parts[i]) THEN << >>
        ELSE << [ty |-> ty, subty |-> subty, suffix |-> suffix,
                 params |-> Len(parts) > 1] >>

\* MediaType::essence: the media type without its parameters
essence(m) == MT(m.ty, m.subty, m.suffix)

\* A from_mime_type that compares the media type as it is, with its
\* parameters, with text/plain
from_mime_type_NoEssence(s) ==
    LET p == MediaType_parse(s)
    IN  IF p = << >> THEN InvalidFormat
        ELSE IF p[1].params THEN UnrecognizedContentType
        ELSE from_media_type(essence(p[1]))

\* Type::from_mime_type: the string is parsed as one media type, which is
\* looked up as it is; a media type with parameters has the hash of no
\* entry of the table
from_mime_type(s) ==
    LET p == MediaType_parse(s)
    IN  IF p = << >> THEN InvalidFormat
        ELSE IF essence(p[1]) = MEDIA_TYPE_TEXT_PLAIN THEN CouldBeAny
        ELSE IF p[1].params THEN UnrecognizedContentType
        ELSE from_media_type(essence(p[1]))

\* Type::from_str, the loop: the first of the elements that, cut at its
\* first ";", parses to a format; None when no element does
RECURSIVE first_parsed(_)
first_parsed(elems) ==
    IF elems = << >> THEN None
    ELSE IF from_mime_type(Head(split(Head(elems), ";"))) \in Format
    THEN from_mime_type(Head(split(Head(elems), ";")))
    ELSE first_parsed(Tail(elems))

\* A from_str that takes the string for one MIME type
from_str_Single(s) == from_mime_type(s)

\* Type::from_str: a comma-separated list of MIME types; when no element
\* parses, the result is that of the whole string
from_str(s) ==
    IF first_parsed(split(s, ",")) # None THEN first_parsed(split(s, ","))
    ELSE from_mime_type(s)


(***************************************************************************)
(* Converter registry and dispatch                                         *)
(* (crates/conversion/src/conversion)                                      *)
(***************************************************************************)

\* to_rdflib_format(f).is_some(): the formats that have an RDFlib name
to_rdflib_format_is_some(f) ==
    f \in { "HexTuples", "JsonLd", "N3", "NQuads", "NTriples", "TriG", "RdfXml",
            "TriX", "Turtle" }

\* oxrdfio::Converter::supports_format: to_oxrdf_format(f).is_some()
oxrdfio_supports_format(f) ==
    f \in { "N3", "NQuads", "NQuadsStar", "NTriples", "NTriplesStar", "OwlXml",
            "RdfXml", "TriG", "TriGStar", "Turtle", "TurtleStar" }

\* rdfx::Converter::supports_format
rdfx_supports_format(f) ==
    f \in { "N3", "JsonLd", "NTriples", "OwlXml", "RdfXml", "Turtle" }

\* The converters that are pushed into CONVERTERS, by their Info name
ConverterName == { "rdfx", "rdf-convert", "pyLODE", "OxRDF I/O" }

\* The commands of the external tools (CLI_CMD of each CLI converter)
CliCmd == { "rdfx", "rdf-convert", "pylode" }

\* Converter::info of each converter
info(c) ==
    CASE c = "OxRDF I/O" ->
           [quality |-> "Data", priority |-> "High", typ |-> "Native", name |-> c]
      [] c = "rdfx" ->
           [quality |-> "Data", priority |-> "Low", typ |-> "Cli", name |-> c]
      [] c = "rdf-convert" ->
           [quality |-> "Prefixes", priority |-> "Mid", typ |-> "Cli", name |-> c]
      [] c = "pyLODE" ->
           [quality |-> "Data", priority |-> "Mid", typ |-> "Cli", name |-> c]

\* Position of x in the sequence s of distinct elements
IndexOf(s, x) == CHOOSE i \in 1..Len(s) : s[i] = x

\* Declaration order of the variants of enum Quality (derived Ord)
QualityOrd(q) ==
    IndexOf(<<"PreservesComments", "PreservesFormatting", "PreservesOrder", "Base",
              "Prefixes", "Data">>, q)

\* Declaration order of the variants of enum Priority (derived Ord)
PriorityOrd(p) == IndexOf(<<"High", "Mid", "Low">>, p)

\* Declaration order of the variants of enum Type (derived Ord)
TypeOrd(t) == IndexOf(<<"Native", "Cli", "NetworkService">>, t)

\* Byte-wise order of the converter names (Ord of &str)
NameOrd(n) == IndexOf(<<"OxRDF I/O", "pyLODE", "rdf-convert", "rdfx">>, n)

\* The derived, lexicographic Ord of struct Info: a strictly before b
InfoLess(a, b) ==
    LET ka == <<QualityOrd(a.quality), PriorityOrd(a.priority), TypeOrd(a.typ),
                NameOrd(a.name)>>
        kb == <<QualityOrd(b.quality), PriorityOrd(b.priority), TypeOrd(b.typ),
                NameOrd(b.name)>>
    IN  \E i \in 1..4 : ka[i] < kb[i] /\ \A j \in 1..(i - 1) : ka[j] = kb[j]

\* Ord for dyn Converter: compares info()
ConverterLess(c, d) == InfoLess(info(c), info(d))

\* Insertion of c into a sorted sequence, after the elements not greater
RECURSIVE InsertSorted(_, _)
InsertSorted(s, c) ==
    IF s = <<>> THEN <<c>>
    ELSE IF ConverterLess(c, Head(s)) THEN <<c>> \o s
    ELSE <<Head(s)>> \o InsertSorted(Tail(s), c)

\* Vec::sort (stable)
RECURSIVE SortConverters(_)
SortConverters(s) ==
    IF s = <<>> THEN <<>>
    ELSE InsertSorted(SortConverters(SubSeq(s, 1, Len(s) - 1)), s[Len(s)])

\* The converters in the order they are pushed, left unsorted
CONVERTERS_AsPushed == <<"rdfx", "rdf-convert", "pyLODE", "OxRDF I/O">>

\* static CONVERTERS: the pushed converters, sorted once
CONVERTERS == SortConverters(<<"rdfx", "rdf-convert", "pyLODE", "OxRDF I/O">>)

\* CLI_CMD of each converter that runs a command, None for the native one
CLI_CMD(c) ==
    CASE c = "rdfx" -> "rdfx"
      [] c = "rdf-convert" -> "rdf-convert"
      [] c = "pyLODE" -> "pylode"
      [] OTHER -> None

\* Converter::is_available, on a host where the commands of av can be
\* spawned: the native converter always is, the others when
\* is_cli_cmd_available(CLI_CMD)
is_available(c, av) == IF c = "OxRDF I/O" THEN TRUE ELSE CLI_CMD(c) \in av

\* Converter::supports
supports(c, from, to) ==
    CASE c = "OxRDF I/O" -> oxrdfio_supports_format(from) /\ oxrdfio_supports_format(to)
      [] c = "rdfx" -> rdfx_supports_format(from) /\ rdfx_supports_format(to)
      [] c = "rdf-convert" ->
           to_rdflib_format_is_some(from) /\ to_rdflib_format_is_some(to)
      [] c = "pyLODE" -> to = "Html" /\ to_rdflib_format_is_some(from)

\* The values of Result<&dyn Converter, Error> that select_converter returns
SelOk(c) == [kind |-> "Ok", converter |-> c]
NonMachineReadableSource(from) == [kind |-> "NonMachineReadableSource", from |-> from]
NoConversionRequired == [kind |-> "NoConversionRequired"]
NoConverter(from, to) == [kind |-> "NoConverter", from |-> from, to |-> to]

\* The converters of the registry that support the pair and are available
Candidates(from, to, av) ==
    { i \in 1..Len(CONVERTERS) :
        supports(CONVERTERS[i], from, to) /\ is_available(CONVERTERS[i], av) }

\* select_converter
select_converter(from, to, av) ==
    IF ~is_machine_readable(from) THEN NonMachineReadableSource(from)
    ELSE IF from = to THEN NoConversionRequired
    ELSE IF Candidates(from, to, av) = {} THEN NoConverter(from, to)
    ELSE SelOk(CONVERTERS[CHOOSE i \in Candidates(from, to, av) :
                              \A j \in Candidates(from, to, av) : i <= j])


\* The argument vector of Converter::convert can be built: rdfx translates
\* the target format, rdf-convert both formats (to_rdflib_format(_).expect),
\* OxRDF I/O both formats (to_oxrdf_format(_).expect), pyLODE none
convert_args_defined(c, from, to) ==
    CASE c = "OxRDF I/O" -> oxrdfio_supports_format(from) /\ oxrdfio_supports_format(to)
      [] c = "rdfx" -> to_rdflib_format_is_some(to)
      [] c = "rdf-convert" ->
           to_rdflib_format_is_some(from) /\ to_rdflib_format_is_some(to)
      [] c = "pyLODE" -> TRUE

\* Converter::convert of converter c: a panic when a format has no
\* translation, else what the tool or the library makes of the file (out):
\* Ok(()) or an error
converter_convert(c, from, to, out) ==
    IF ~convert_args_defined(c, from, to) THEN "panic"
    ELSE IF out = "ok" THEN "Ok"
    ELSE "Err:" \o c

\* A convert that goes on to the next converter of the registry that
\* supports the pair and is available when the selected one fails
convert_Fallback(from, to, av, outs) ==
    LET s == select_converter(from, to, av)
        cand == Candidates(from, to, av)
        first == CHOOSE i \in cand : \A j \in cand : i <= j
        rest == cand \ {first}
        second == CHOOSE i \in rest : \A j \in rest : i <= j
        r1 == converter_convert(s.converter, from, to, outs[s.converter])
    IN  IF s.kind # "Ok" THEN [path |-> << >>, ty |-> s.kind]
        ELSE IF r1 = "Ok" \/ rest = {} THEN [path |-> <<s.converter>>, ty |-> r1]
        ELSE [path |-> <<s.converter, CONVERTERS[second]>>,
              ty |-> converter_convert(CONVERTERS[second], from, to, outs[CONVERTERS[second]])]

\* convert: the converter select_converter returns is run, and its result
\* is the result; path holds the converters that were run
convert(from, to, av, outs) ==
    LET s == select_converter(from, to, av)
    IN  IF s.kind # "Ok" THEN [path |-> << >>, ty |-> s.kind]
        ELSE [path |-> <<s.converter>>,
              ty |-> converter_convert(s.converter, from, to, outs[s.converter])]


(***************************************************************************)
(* Cache layout (src/cache.rs, src/util.rs)                                *)
(***************************************************************************)

\* A URI is the sequence of the characters of Url::as_str
UriBase == <<"h", "t", "t", "p", ":", "/", "/", "a", ".", "b", "/", "o">>
UriPlain == UriBase
UriTtl == UriBase \o <<".", "t", "t", "l">>
UriXy == UriBase \o <<".", "x", "y">>
Uri == { UriPlain, UriTtl, UriXy }

\* The characters the regular expression NON_BASIC_CHARS does not match
BasicChars ==
    { "a", "b", "c", "d", "e", "f", "g", "h", "i", "j", "k", "l", "m", "n", "o", "p",
      "q", "r", "s", "t", "u", "v", "w", "x", "y", "z",
      "A", "B", "C", "D", "E", "F", "G", "H", "I", "J", "K", "L", "M", "N", "O", "P",
      "Q", "R", "S", "T", "U", "V", "W", "X", "Y", "Z",
      "0", "1", "2", "3", "4", "5", "6", "7", "8", "9" }

\* The string made of the characters of cs
RECURSIVE Concat(_)
Concat(cs) == IF cs = <<>> THEN "" ELSE Head(cs) \o Concat(Tail(cs))

\* url2fname: every character NON_BASIC_CHARS matches is replaced by "_"
url2fname(u) == Concat([i \in 1..Len(u) |-> IF u[i] \in BasicChars THEN u[i] ELSE "_"])

\* MULTI_UNDERSCORES.replace_all(_, "_"): every run of "_" becomes one "_"
RECURSIVE Collapse(_)
Collapse(cs) ==
    IF Len(cs) < 2 THEN cs
    ELSE IF cs[1] = "_" /\ cs[2] = "_" THEN Collapse(Tail(cs))
    ELSE <<Head(cs)>> \o Collapse(Tail(cs))

\* url2fname of the crate rdfoothills_base: the characters NON_BASIC_CHARS
\* matches are replaced by "_", and then the runs of "_" by one "_"
base_url2fname(u) ==
    Concat(Collapse([i \in 1..Len(u) |-> IF u[i] \in BasicChars THEN u[i] ELSE "_"]))

\* hasher::hash_num: the hash of the URI, taken to be free of collisions
hash_num(u) == [hash_of |-> u]

\* ont_dir: the cache directory of a URI, below <cache_root>/ontologies
ont_dir(u) == <<"ontologies", url2fname(u), hash_num(u)>>

\* The cache directory of every URI
OntDirOf == [u \in Uri |-> ont_dir(u)]

\* Url::path of the URIs: the characters from the first "/" after the host
uri_path(u) == SubSeq(u, Len(UriBase) - 1, Len(u))

\* extract_file_ext (Path::extension) of a path: what follows the last "."
\* of the last segment, None when there is no such "."
extract_file_ext(path) ==
    LET dots == { i \in 2..Len(path) :
                    /\ path[i] = "."
                    /\ path[i - 1] # "/"
                    /\ \A j \in i..Len(path) : path[j] # "/" }
    IN  IF dots = {} THEN None
        ELSE Concat(SubSeq(path, (CHOOSE i \in dots : \A j \in dots : j <= i) + 1,
                           Len(path)))

\* A cache file is named "ontology.<e>" and is identified here by <e>, the
\* result of file_ext; FEXT_ND_JSON_LD is the only one that holds a "."
\* Path::file_stem of "ontology.<e>"
file_stem(e) == IF e = ".ndjsonld" THEN "ontology." ELSE "ontology"

\* Path::extension of "ontology.<e>"
path_extension(e) == IF e = ".ndjsonld" THEN "ndjsonld" ELSE e

\* ONT_FILE_PREFIX
ONT_FILE_PREFIX == "ontology"

\* ont_file: the cache file of a format, as the <e> of "ontology.<e>"
ont_file(f) == file_ext(f)

\* ont_file: the path of the cache file of a format in a cache directory
ont_file_path(dir, f) == Append(dir, ONT_FILE_PREFIX \o "." \o file_ext(f))

\* A directory without files
EmptyDir == [e \in {} |-> None]

\* The files of a directory after a file was written (created or replaced)
WriteFile(dir, e, content) ==
    [x \in (DOMAIN dir) \cup {e} |-> IF x = e THEN content ELSE dir[x]]

\* Content written by dl_ont: the bytes of the upstream response
Downloaded(body) == [k |-> "dl", b |-> body, by |-> None]

\* Content written by a converter that ran to its end on a source file
Converted(src, tool) == [k |-> "conv", b |-> src.b, by |-> tool]

\* Type::from_path of "ontology.<e>": by extension first; a name without a
\* recognized extension is read and sniffed (Type::from_content, below)
from_path_by_ext(e) == from_file_ext(path_extension(e))


(***************************************************************************)
(* Downloader (src/cache.rs, dl_ont)                                       *)
(***************************************************************************)

\* What the upstream server can put into the Content-Type header: no
\* header, a value HeaderValue::to_str rejects, a value MediaType::parse
\* rejects, or a media type
NoHeader == [hdr |-> "absent"]
OpaqueHeader == [hdr |-> "opaque"]
MalformedHeader == [hdr |-> "malformed"]
Header(mt) == [hdr |-> "mt", mt |-> mt]

\* Bodies the upstream server can send
Body == { "xml-bytes", "html-bytes", "png-bytes", "turtle-bytes" }

\* infer::get(content) with the media type of its mime_type(): a sequence
\* of one media type, empty when the content matches no known signature
infer_get(content) ==
    CASE content = "xml-bytes" -> << MT("text", "xml", "") >>
      [] content = "html-bytes" -> << MT("text", "html", "") >>
      [] content = "png-bytes" -> << MT("image", "png", "") >>
      [] OTHER -> << >>

\* Type::from_content
from_content(content) ==
    IF infer_get(content) = << >> THEN UnidentifiedContent
    ELSE from_media_type(infer_get(content)[1])

\* Whether a result of a parsing function is an error
IsErr(x) == x \in { CouldBeAny, UnrecognizedContentType, InvalidFormat, UnidentifiedContent }

\* dl_ont, the evaluation of the Content-Type header: the format, None when
\* the header is absent or generic, or the error that ends the download
resp_rdf_mime_type_opt(ctype) ==
    CASE ctype.hdr = "absent" -> None
      [] ctype.hdr = "opaque" -> "Err:ContentTypeNotVisibleAscii"
      [] ctype.hdr = "malformed" -> "Err:ContentTypeNotAMimeType"
      [] ctype.hdr = "mt" ->
           IF from_media_type(ctype.mt) = CouldBeAny THEN None
           ELSE IF IsErr(from_media_type(ctype.mt)) THEN "Err:ContentTypeNotAnRdfMimeType"
           ELSE from_media_type(ctype.mt)

\* dl_ont, the format by the extension of the path of the URI
file_ext_mtype_opt(u) ==
    IF extract_file_ext(uri_path(u)) = None THEN None
    ELSE from_file_ext(extract_file_ext(uri_path(u)))

\* A detection that prefers the hinted format to what the response tells
resp_rdf_mime_type_HintFirst(ctype, u, content, hint) ==
    IF hint # None THEN hint
    ELSE IF resp_rdf_mime_type_opt(ctype) # None THEN resp_rdf_mime_type_opt(ctype)
    ELSE IF file_ext_mtype_opt(u) # None THEN file_ext_mtype_opt(u)
    ELSE IF ~IsErr(from_content(content)) THEN from_content(content)
    ELSE "Err:Undetermined"

\* dl_ont, the format of a response whose body was received: by header,
\* else by the path of the URI, else by content, else the format hinted
\* by the client (query_mime_type), else an error
resp_rdf_mime_type(ctype, u, content, hint) ==
    IF resp_rdf_mime_type_opt(ctype) # None THEN resp_rdf_mime_type_opt(ctype)
    ELSE IF file_ext_mtype_opt(u) # None THEN file_ext_mtype_opt(u)
    ELSE IF ~IsErr(from_content(content)) THEN from_content(content)
    ELSE IF hint # None THEN hint
    ELSE "Err:Undetermined"

\* Whether a result of the downloader's detection is a format
IsFormat(x) == x \in Format

(***************************************************************************)
(* Conversion as the request handler runs it (src/convert/mod.rs)          *)
(***************************************************************************)

\* try_convert, the command it runs for a source and a requested format;
\* None when it returns an error without running one
convert_cmd(from, to) ==
    IF ~is_machine_readable(from) THEN None
    ELSE IF to = "Html" THEN "pylode"
    ELSE IF to_rdflib_format_is_some(from) /\ to_rdflib_format_is_some(to)
         THEN "rdf-convert"
    ELSE None

\* cli_cmd: what running a command comes to. A command that can not be
\* spawned gives "noinvoke"; otherwise the environment decides (out) between
\* exit status zero with the output file written ("ok"), a non-zero exit
\* status ("fail"), and a non-zero exit status of a tool that had created
\* its output file by then ("partial")
cli_cmd(cmd, av, out) == IF cmd \notin av THEN "noinvoke" ELSE out

\* Content left behind by a converter that failed after creating its output
\* file: none of the callers removes it
Partial(src, tool) == [k |-> "partial", b |-> src.b, by |-> tool]

\* try_convert on the source file at <src> of directory dir: the outcome
\* (how stands for "none" when no command was run), the files afterwards,
\* and the response
try_convert(dir, src, from, want, av, out) ==
    LET cmd == convert_cmd(from, want)
        how == IF cmd = None THEN "none" ELSE cli_cmd(cmd, av, out)
        made == Converted(dir[src], cmd)
    IN  [ cmd |-> cmd, from |-> from, to |-> want, how |-> how,
          dir |-> IF how = "ok" THEN WriteFile(dir, ont_file(want), made)
                  ELSE IF how = "partial"
                       THEN WriteFile(dir, ont_file(want), Partial(dir[src], cmd))
                  ELSE dir,
          resp |-> IF how = "ok"
                   THEN [status |-> 200, ctype |-> mime_type(want),
                         file |-> ont_file(want), body |-> made]
                   ELSE [status |-> 500, ctype |-> None, file |-> None,
                         body |-> [k |-> "error", b |-> how, by |-> cmd]] ]


(***************************************************************************)
(* The server: requests in flight over one cache (src/main.rs)             *)
(***************************************************************************)

\* The number of requests the server is sent
MaxRequests == 2

\* The requests that can be in flight at the same time
Slot == { 1, 2 }

VARIABLES
    avail,      \* the commands that can be spawned on this host
    prefere_conversion,  \* the preference the server was started with
    dirs,       \* the cache directories that exist
    files,      \* per cache directory, its files: <e> of "ontology.<e>" -> content
    req,        \* per slot, the request in flight: its inputs, its position
                \* in handler_rdf, its locals, and what it did so far
    started,    \* the number of requests received so far
    sel,        \* the last query to select_converter with its result
    call        \* the last call of a function of the MIME registry, of the
                \* cache layout or of a converter, with its result

vars == <<avail, prefere_conversion, dirs, files, req, started, sel, call>>

\* DlOrConv
DlOrConv == { "Download", "Convert" }

NoResp == [status |-> 0, ctype |-> None, file |-> None, body |-> [k |-> None, b |-> None, by |-> None]]
NoDl == [mime_type |-> None, content |-> None]
NoUpstream == [status |-> 0, net |-> None, ctype |-> NoHeader, content |-> None]

\* A slot that holds no request
\* The parts of a request the extractor of OntRequest reads: the query
\* parameter uri, the Accept header and the query parameter query-accept
\* (none recorded for a request that is given by its extracted fields)
NoParts == [rec |-> FALSE]
NoParam == [present |-> FALSE]
Param(s) == [present |-> TRUE, str |-> s]
Parts(uri, accept, query_accept) ==
    [rec |-> TRUE, uri |-> uri, accept |-> accept, query_accept |-> query_accept]

IdleReq ==
    [ pc |-> "idle", uri |-> UriPlain, want |-> "Html", pref |-> "Download",
      hint |-> None, might |-> FALSE, todo |-> << >>, dl |-> NoDl,
      upstream |-> NoUpstream, dlCount |-> 0, convLog |-> << >>, wrote |-> {},
      resp |-> NoResp, cache0 |-> EmptyDir, parts |-> NoParts ]

\* An error response (StatusCode::INTERNAL_SERVER_ERROR with a message)
ErrResp(why) ==
    [status |-> 500, ctype |-> None, file |-> None,
     body |-> [k |-> "error", b |-> why, by |-> None]]

\* respond_with_body: the Content-Type of the requested format, the name of
\* the file, and a body
respond_with_body(file, mtype, body) ==
    [status |-> 200, ctype |-> mime_type(mtype), file |-> file, body |-> body]

\* The files of a cache directory, none when it does not exist
FilesOf(d) == IF d \in dirs THEN files[d] ELSE EmptyDir

\* No query to select_converter yet
NoQuery == [from |-> None, to |-> None, avail |-> {}, res |-> [kind |-> "Pending"]]

\* The result of a call that has not returned: no path, no format, no error
Pending == [path |-> << >>, ty |-> "Pending"]

\* No call yet
NoCall == [fn |-> None, dir |-> << >>, fmt |-> None, to |-> None, str |-> None, res |-> Pending]

Init ==
    /\ avail \in { CliCmd, CliCmd \ {"rdf-convert"} }
    /\ prefere_conversion \in DlOrConv
    /\ dirs = {}
    /\ files = [d \in { OntDirOf[u] : u \in Uri } |-> EmptyDir]
    /\ req = [r \in Slot |-> IdleReq]
    /\ started = 0
    /\ sel = NoQuery
    /\ call = NoCall

\* A request arrives: OntRequest holds the URI, the requested format
\* (mime_type), the preference of the server and the format hinted in the
\* query (query_mime_type); handler_rdf computes its paths
Start(r, u, want, hint) ==
    /\ req[r].pc \in { "idle", "done" }
    /\ started < MaxRequests
    /\ started' = started + 1
    /\ req' = [req EXCEPT ![r] =
                 [IdleReq EXCEPT !.pc = "ensure_dir", !.uri = u, !.want = want,
                                 !.pref = prefere_conversion, !.hint = hint,
                                 !.cache0 = FilesOf(OntDirOf[u])]]
    /\ UNCHANGED <<avail, prefere_conversion, dirs, files, sel, call>>

\* A rejection of the extractor: a response with a status and a message
Rejection(status, why) == [ok |-> FALSE, status |-> status, why |-> why]
Extracted(val) == [ok |-> TRUE, val |-> val]

\* Url::parse: an absolute URL parses, a relative reference without a base
\* (and the empty string) does not
Url_parse_ok(str) == str \in Uri

\* mime::Type::from_str on the strings the requests of SpecRequest carry in
\* the Accept header or the parameter query-accept
RequestStr == { "text/turtle", "text/html", "image/png" }
ParsedType == [ str \in RequestStr |-> from_str(str) ]

\* extract_requested_content_type: the Accept header, Html (the default of
\* mime::Type) when there is none; parsed holds the results of from_str
extract_requested_content_type(accept, parsed) ==
    IF accept.hdr = "absent" THEN Extracted("Html")
    ELSE IF accept.hdr = "opaque" THEN Rejection(404, "Err:HeaderToStr")
    ELSE IF parsed[accept.str] \in Format THEN Extracted(parsed[accept.str])
    ELSE Rejection(415, parsed[accept.str])

\* extract_uri: the query parameter uri
extract_uri(uri) ==
    IF ~uri.present THEN Rejection(404, "Err:UriMissing")
    ELSE IF ~Url_parse_ok(uri.str) THEN Rejection(415, "Err:UriInvalid")
    ELSE Extracted(uri.str)

\* extract_query_accept: the query parameter query-accept, if any
extract_query_accept(q, parsed) ==
    IF ~q.present THEN Extracted(None)
    ELSE IF parsed[q.str] \in Format THEN Extracted(parsed[q.str])
    ELSE Rejection(415, parsed[q.str])

\* OntRequest::from_request_parts: the three extractions in the order of
\* the code, each returning its rejection with `?`
from_request_parts(parts, pref, parsed) ==
    IF ~extract_requested_content_type(parts.accept, parsed).ok
    THEN extract_requested_content_type(parts.accept, parsed)
    ELSE IF ~extract_uri(parts.uri).ok
    THEN extract_uri(parts.uri)
    ELSE IF ~extract_query_accept(parts.query_accept, parsed).ok
    THEN extract_query_accept(parts.query_accept, parsed)
    ELSE [ok |-> TRUE, uri |-> extract_uri(parts.uri).val,
          query_mime_type |-> extract_query_accept(parts.query_accept, parsed).val,
          mime_type |-> extract_requested_content_type(parts.accept, parsed).val,
          pref |-> pref]

\* The requests the server is sent as their parts (SpecRequest), with
\* the parameter uri missing, not an absolute URL, or the URI of an
\* ontology, and Accept headers and query-accept parameters the extractor
\* accepts and rejects
OpaqueAccept == [hdr |-> "opaque"]
NoAccept == [hdr |-> "absent"]
Accept(str) == [hdr |-> "str", str |-> str]
PartsUri == { NoParam, Param(<<"o">>), Param(UriPlain) }
PartsAccept ==
    { NoAccept, OpaqueAccept, Accept("text/turtle"), Accept("text/html"),
      Accept("image/png") }
PartsQueryAccept == { NoParam, Param("text/turtle"), Param("image/png") }

\* What the extractor makes of each of these requests, for either preference
\* of the server
RequestParts ==
    { Parts(uri, accept, query_accept) :
        uri \in PartsUri, accept \in PartsAccept, query_accept \in PartsQueryAccept }
Extraction ==
    [ parts \in RequestParts, pref \in DlOrConv |-> from_request_parts(parts, pref, ParsedType) ]

\* A request arrives as its parts: the extractor runs; its rejection is the
\* response and handler_rdf is not called, its OntRequest starts handler_rdf
Receive(r, parts) ==
    LET o == Extraction[parts, prefere_conversion]
    IN  /\ req[r].pc \in { "idle", "done" }
        /\ started < MaxRequests
        /\ started' = started + 1
        /\ req' = [req EXCEPT ![r] =
                     IF o.ok
                     THEN [IdleReq EXCEPT !.pc = "ensure_dir", !.uri = o.uri,
                                          !.want = o.mime_type, !.pref = o.pref,
                                          !.hint = o.query_mime_type,
                                          !.cache0 = FilesOf(OntDirOf[o.uri]),
                                          !.parts = parts]
                     ELSE [IdleReq EXCEPT !.pc = "done", !.parts = parts,
                                          !.resp = [ErrResp(o.why) EXCEPT !.status = o.status]]]
        /\ UNCHANGED <<avail, prefere_conversion, dirs, files, sel, call>>

\* ensure_dir_exists, try_exists: an existing directory makes it return
\* Ok(false), and handler_rdf, with ont_might_be_cached = false, skips the
\* lookup and the cached files, and goes on to dl_ont
DirCheck(r) ==
    /\ req[r].pc = "ensure_dir"
    /\ IF OntDirOf[req[r].uri] \in dirs
       THEN req' = [req EXCEPT ![r].might = FALSE, ![r].pc = "dl_send"]
       ELSE req' = [req EXCEPT ![r].pc = "create_dir"]
    /\ UNCHANGED <<avail, prefere_conversion, dirs, files, started, sel, call>>

\* ensure_dir_exists, create_dir_all, which also succeeds on a directory
\* that exists by now; it returns Ok(true), which becomes ont_might_be_cached
DirCreate(r) ==
    /\ req[r].pc = "create_dir"
    /\ dirs' = dirs \cup { OntDirOf[req[r].uri] }
    /\ req' = [req EXCEPT ![r].might = TRUE, ![r].pc = "look_for_file"]
    /\ UNCHANGED <<avail, prefere_conversion, files, started, sel, call>>

\* handler_rdf, if ont_might_be_cached: look_for_file on the file of the
\* requested format, served with body_from_file when it exists
Lookup(r) ==
    LET d == OntDirOf[req[r].uri]
        e == ont_file(req[r].want)
    IN  /\ req[r].pc = "look_for_file"
        /\ req[r].might
        /\ IF e \in DOMAIN files[d]
           THEN req' = [req EXCEPT
                          ![r].resp = respond_with_body(e, req[r].want, files[d][e]),
                          ![r].pc = "done"]
           ELSE IF req[r].pref = "Convert"
           THEN req' = [req EXCEPT ![r].pc = "search_ont_files"]
           ELSE req' = [req EXCEPT ![r].pc = "dl_send"]
        /\ UNCHANGED <<avail, prefere_conversion, dirs, files, started, sel, call>>


\* The orders in which read_dir can yield the entries of S
Orders(S) ==
    { o \in [1..Cardinality(S) -> S] : \A i, j \in 1..Cardinality(S) : o[i] = o[j] => i = j }

\* search_ont_files(dir, all = true): the files whose stem is ONT_FILE_PREFIX
OntFilesIn(dir) == { e \in DOMAIN dir : file_stem(e) = ONT_FILE_PREFIX }

\* annotate_ont_files, then the filter on machine-readable formats
RECURSIVE machine_readable_cached_ont_files(_)
machine_readable_cached_ont_files(found) ==
    IF found = << >> THEN << >>
    ELSE (IF is_machine_readable(from_path_by_ext(Head(found)))
          THEN << [file |-> Head(found), mime_type |-> from_path_by_ext(Head(found))] >>
          ELSE << >>)
         \o machine_readable_cached_ont_files(Tail(found))

\* handler_rdf, DlOrConv::Convert with ont_might_be_cached: the cached files
\* are listed (in the order of the directory), annotated and filtered; with
\* none left, dl_ont is next
SearchOntFiles(r) ==
    LET d == OntDirOf[req[r].uri] IN
    /\ req[r].pc = "search_ont_files"
    /\ req[r].pref = "Convert" /\ req[r].might
    /\ \E found \in Orders(OntFilesIn(files[d])) :
         LET mr == machine_readable_cached_ont_files(found) IN
         req' = [req EXCEPT ![r].todo = mr,
                            ![r].pc = IF mr = << >> THEN "dl_send" ELSE "try_convert_cached"]
    /\ UNCHANGED <<avail, prefere_conversion, dirs, files, started, sel, call>>

\* What a request remembers of a call of try_convert: on which file it was
\* called (at: a cached or the downloaded one), and what try_convert did
Logged(c, at) == [at |-> at, cmd |-> c.cmd, from |-> c.from, to |-> c.to, how |-> c.how]

\* A loop over the cached files that answers with the error of the first
\* conversion that fails
ConvertCached_FailFast(r, out) ==
    LET d == OntDirOf[req[r].uri]
        src == Head(req[r].todo)
        c == try_convert(files[d], src.file, src.mime_type, req[r].want, avail, out)
    IN  /\ req[r].pc = "try_convert_cached"
        /\ files' = [files EXCEPT ![d] = c.dir]
        /\ req' = [req EXCEPT
                     ![r].convLog = Append(@, Logged(c, "cached")),
                     ![r].wrote = IF c.how \in {"ok", "partial"} THEN @ \cup {ont_file(req[r].want)} ELSE @,
                     ![r].todo = Tail(@),
                     ![r].resp = c.resp,
                     ![r].pc = "done"]
        /\ UNCHANGED <<avail, prefere_conversion, dirs, started, sel, call>>

\* A loop over the cached files that goes on to dl_ont after the first
\* conversion that fails, whatever files are left
ConvertCached_GiveUp(r, out) ==
    LET d == OntDirOf[req[r].uri]
        src == Head(req[r].todo)
        c == try_convert(files[d], src.file, src.mime_type, req[r].want, avail, out)
    IN  /\ req[r].pc = "try_convert_cached"
        /\ files' = [files EXCEPT ![d] = c.dir]
        /\ req' = [req EXCEPT
                     ![r].convLog = Append(@, Logged(c, "cached")),
                     ![r].wrote = IF c.how \in {"ok", "partial"} THEN @ \cup {ont_file(req[r].want)} ELSE @,
                     ![r].resp = IF c.how = "ok" THEN c.resp ELSE @,
                     ![r].pc = IF c.how = "ok" THEN "done" ELSE "dl_send"]
        /\ UNCHANGED <<avail, prefere_conversion, dirs, started, sel, call>>

\* handler_rdf, one turn of the loop over the machine-readable cached files:
\* try_convert on the next one; Ok is returned to the client, Err goes on to
\* the next file, and after the last one to dl_ont
ConvertCached(r, out) ==
    LET d == OntDirOf[req[r].uri]
        src == Head(req[r].todo)
        c == try_convert(files[d], src.file, src.mime_type, req[r].want, avail, out)
    IN  /\ req[r].pc = "try_convert_cached"
        /\ files' = [files EXCEPT ![d] = c.dir]
        /\ req' = [req EXCEPT
                     ![r].convLog = Append(@, Logged(c, "cached")),
                     ![r].wrote = IF c.how \in {"ok", "partial"} THEN @ \cup {ont_file(req[r].want)} ELSE @,
                     ![r].todo = Tail(@),
                     ![r].resp = IF c.how = "ok" THEN c.resp ELSE @,
                     ![r].pc = IF c.how = "ok" THEN "done"
                               ELSE IF Tail(req[r].todo) = << >> THEN "dl_send"
                               ELSE "try_convert_cached"]
        /\ UNCHANGED <<avail, prefere_conversion, dirs, started, sel, call>>

\* A dl_ont that does not go on with a response whose status is not 2xx
\* (Response::error_for_status)
DlResponse_ErrorForStatus(r, status, net, ctype, content) ==
    LET fmt == resp_rdf_mime_type(ctype, req[r].uri, content, req[r].hint)
        hdr == resp_rdf_mime_type_opt(ctype)
        failure == IF net = "send_err" THEN "Err:Send"
                   ELSE IF status \notin 200..299 THEN "Err:Status"
                   ELSE IF hdr # None /\ ~IsFormat(hdr) THEN hdr
                   ELSE IF net = "body_err" THEN "Err:Body"
                   ELSE IF ~IsFormat(fmt) THEN fmt
                   ELSE None
        up == [status |-> status, net |-> net, ctype |-> ctype, content |-> content]
    IN  /\ req[r].pc = "dl_send"
        /\ IF failure # None
           THEN req' = [req EXCEPT ![r].dlCount = @ + 1, ![r].upstream = up,
                                   ![r].resp = ErrResp(failure), ![r].pc = "done"]
           ELSE req' = [req EXCEPT ![r].dlCount = @ + 1, ![r].upstream = up,
                                   ![r].dl = [mime_type |-> fmt, content |-> content],
                                   ![r].pc = "dl_write"]
        /\ UNCHANGED <<avail, prefere_conversion, dirs, files, started, sel, call>>

\* dl_ont up to the detection of the format: the request is sent (with the
\* hinted format as Accept header), and the upstream server answers with a
\* status, a Content-Type header and a body, or the transfer fails (net);
\* the status of the response is not looked at
DlResponse(r, status, net, ctype, content) ==
    LET fmt == resp_rdf_mime_type(ctype, req[r].uri, content, req[r].hint)
        hdr == resp_rdf_mime_type_opt(ctype)
        failure == IF net = "send_err" THEN "Err:Send"
                   ELSE IF hdr # None /\ ~IsFormat(hdr) THEN hdr
                   ELSE IF net = "body_err" THEN "Err:Body"
                   ELSE IF ~IsFormat(fmt) THEN fmt
                   ELSE None
    IN  /\ req[r].pc = "dl_send"
        /\ IF failure # None
           THEN req' = [req EXCEPT ![r].dlCount = @ + 1,
                                   ![r].upstream = [status |-> status, net |-> net,
                                                    ctype |-> ctype, content |-> content],
                                   ![r].resp = ErrResp(failure),
                                   ![r].pc = "done"]
           ELSE req' = [req EXCEPT ![r].dlCount = @ + 1,
                                   ![r].upstream = [status |-> status, net |-> net,
                                                    ctype |-> ctype, content |-> content],
                                   ![r].dl = [mime_type |-> fmt, content |-> content],
                                   ![r].pc = "dl_write"]
        /\ UNCHANGED <<avail, prefere_conversion, dirs, files, started, sel, call>>

\* dl_ont with an upstream server that answers 200 OK
DlSend(r, net, ctype, content) == DlResponse(r, 200, net, ctype, content)

\* A handler that sends every machine-readable download through
\* try_convert, also one that is in the requested format already
DlWrite_AlwaysConvert(r) ==
    LET d == OntDirOf[req[r].uri]
        dled == req[r].dl
        e == ont_file(dled.mime_type)
    IN  /\ req[r].pc = "dl_write"
        /\ files' = [files EXCEPT ![d] = WriteFile(@, e, Downloaded(dled.content))]
        /\ req' = [req EXCEPT
                     ![r].wrote = @ \cup {e},
                     ![r].resp = IF is_machine_readable(dled.mime_type) THEN @
                                 ELSE ErrResp("Err:NotMachineReadable"),
                     ![r].pc = IF is_machine_readable(dled.mime_type)
                               THEN "try_convert_dled" ELSE "done"]
        /\ UNCHANGED <<avail, prefere_conversion, dirs, started, sel, call>>

\* A handler that sends every download in another than the requested
\* format through try_convert, also one that is not machine-readable
DlWrite_ConvertAny(r) ==
    LET d == OntDirOf[req[r].uri]
        dled == req[r].dl
        e == ont_file(dled.mime_type)
    IN  /\ req[r].pc = "dl_write"
        /\ files' = [files EXCEPT ![d] = WriteFile(@, e, Downloaded(dled.content))]
        /\ req' = [req EXCEPT
                     ![r].wrote = @ \cup {e},
                     ![r].resp =
                        IF dled.mime_type = req[r].want
                        THEN respond_with_body(e, req[r].want, Downloaded(dled.content))
                        ELSE @,
                     ![r].pc = IF dled.mime_type # req[r].want
                               THEN "try_convert_dled" ELSE "done"]
        /\ UNCHANGED <<avail, prefere_conversion, dirs, started, sel, call>>

\* A handler whose download leaves a file that exists as it is (a write
\* that creates the file, and never replaces it)
DlWrite_KeepExisting(r) ==
    LET d == OntDirOf[req[r].uri]
        dled == req[r].dl
        e == ont_file(dled.mime_type)
    IN  /\ req[r].pc = "dl_write"
        /\ files' = [files EXCEPT ![d] =
                        IF e \in DOMAIN @ THEN @
                        ELSE WriteFile(@, e, Downloaded(dled.content))]
        /\ req' = [req EXCEPT
                     ![r].wrote = @ \cup {e},
                     ![r].resp =
                        IF dled.mime_type = req[r].want
                        THEN respond_with_body(e, req[r].want, Downloaded(dled.content))
                        ELSE IF is_machine_readable(dled.mime_type) THEN @
                        ELSE ErrResp("Err:NotMachineReadable"),
                     ![r].pc =
                        IF dled.mime_type # req[r].want /\ is_machine_readable(dled.mime_type)
                        THEN "try_convert_dled" ELSE "done"]
        /\ UNCHANGED <<avail, prefere_conversion, dirs, started, sel, call>>

\* dl_ont, the write of the body to the file of the detected format, and
\* what handler_rdf does with the result up to its next await: a body in
\* the requested format is the response (body_from_content); a body in a
\* format that is not machine-readable is an error; any other goes to
\* try_convert
DlWrite(r) ==
    LET d == OntDirOf[req[r].uri]
        dled == req[r].dl
        e == ont_file(dled.mime_type)
    IN  /\ req[r].pc = "dl_write"
        /\ files' = [files EXCEPT ![d] = WriteFile(@, e, Downloaded(dled.content))]
        /\ req' = [req EXCEPT
                     ![r].wrote = @ \cup {e},
                     ![r].resp =
                        IF dled.mime_type = req[r].want
                        THEN respond_with_body(e, req[r].want, Downloaded(dled.content))
                        ELSE IF is_machine_readable(dled.mime_type) THEN @
                        ELSE ErrResp("Err:NotMachineReadable"),
                     ![r].pc =
                        IF dled.mime_type # req[r].want /\ is_machine_readable(dled.mime_type)
                        THEN "try_convert_dled" ELSE "done"]
        /\ UNCHANGED <<avail, prefere_conversion, dirs, started, sel, call>>

\* handler_rdf, try_convert on the downloaded file; its result, Ok or Err,
\* is the response
ConvertDled(r, out) ==
    LET d == OntDirOf[req[r].uri]
        dled == req[r].dl
        c == try_convert(files[d], ont_file(dled.mime_type), dled.mime_type,
                         req[r].want, avail, out)
    IN  /\ req[r].pc = "try_convert_dled"
        /\ files' = [files EXCEPT ![d] = c.dir]
        /\ req' = [req EXCEPT
                     ![r].convLog = Append(@, Logged(c, "dled")),
                     ![r].wrote = IF c.how \in {"ok", "partial"} THEN @ \cup {ont_file(req[r].want)} ELSE @,
                     ![r].resp = c.resp,
                     ![r].pc = "done"]
        /\ UNCHANGED <<avail, prefere_conversion, dirs, started, sel, call>>

\* A call of select_converter, with the arguments of the query
Select ==
    /\ sel.res.kind = "Pending"
    /\ sel.from # None
    /\ sel' = [sel EXCEPT !.res = select_converter(sel.from, sel.to, sel.avail)]
    /\ UNCHANGED <<avail, prefere_conversion, dirs, files, req, started, call>>

\* The inputs of the server in Spec
ReqUri == { UriPlain }
ReqWant == { "Html", "Turtle", "RdfXml" }
ReqHint == { None }
UpstreamNet == { "ok" }
UpstreamHeader ==
    { Header(MT("text", "turtle", "")), Header(MT("text", "html", "")) }
UpstreamBody == { "turtle-bytes" }
CmdOutcome == { "ok", "fail" }

Next ==
    \/ \E r \in Slot, u \in ReqUri, want \in ReqWant, hint \in ReqHint :
         Start(r, u, want, hint)
    \/ \E r \in Slot : DirCheck(r)
    \/ \E r \in Slot : DirCreate(r)
    \/ \E r \in Slot : Lookup(r)
    \/ \E r \in Slot : SearchOntFiles(r)
    \/ \E r \in Slot, out \in CmdOutcome : ConvertCached(r, out)
    \/ \E r \in Slot, net \in UpstreamNet, ctype \in UpstreamHeader, content \in UpstreamBody :
         DlSend(r, net, ctype, content)
    \/ \E r \in Slot : DlWrite(r)
    \/ \E r \in Slot, out \in CmdOutcome : ConvertDled(r, out)

Spec == Init /\ [][Next]_vars


(***************************************************************************)
(* The downloader under every kind of upstream answer                      *)
(***************************************************************************)

\* The inputs of the server in SpecDl: a server that prefers the download,
\* one request at a time, to URIs with and without a file extension, with
\* and without a hinted format
DlSlot == { 1 }
DlUri == { UriPlain, UriTtl, UriXy }
DlWant == { "Turtle" }
DlHint == { None, "Turtle" }
DlNet == { "ok", "body_err" }
DlBody == { "xml-bytes", "png-bytes", "turtle-bytes" }
DlHeader ==
    { NoHeader, OpaqueHeader, MalformedHeader, Header(MEDIA_TYPE_TEXT_PLAIN),
      Header(MT("text", "html", "")), Header(MT("image", "png", "")) }

NextDl ==
    \/ \E r \in DlSlot, u \in DlUri, want \in DlWant, hint \in DlHint :
         Start(r, u, want, hint)
    \/ \E r \in DlSlot : DirCheck(r)
    \/ \E r \in DlSlot : DirCreate(r)
    \/ \E r \in DlSlot : Lookup(r)
    \/ \E r \in DlSlot, net \in DlNet, ctype \in DlHeader, content \in DlBody :
         DlSend(r, net, ctype, content)
    \/ \E r \in DlSlot : DlWrite(r)
    \/ \E r \in DlSlot, out \in CmdOutcome : ConvertDled(r, out)

InitDl == Init /\ prefere_conversion = "Download"

SpecDl == InitDl /\ [][NextDl]_vars

(***************************************************************************)
(* Concurrent requests for one URI whose upstream content changes          *)
(***************************************************************************)

\* The inputs of the server in SpecRace: requests for one URI, answered by
\* the upstream server as Turtle, with one of two bodies
RaceWant == { "Turtle", "Html" }
RaceHeader == { Header(MT("text", "turtle", "")) }
RaceBody == { "turtle-bytes", "xml-bytes" }

NextRace ==
    \/ \E r \in Slot, u \in ReqUri, want \in RaceWant, hint \in ReqHint :
         Start(r, u, want, hint)
    \/ \E r \in Slot : DirCheck(r)
    \/ \E r \in Slot : DirCreate(r)
    \/ \E r \in Slot : Lookup(r)
    \/ \E r \in Slot : SearchOntFiles(r)
    \/ \E r \in Slot, out \in CmdOutcome : ConvertCached(r, out)
    \/ \E r \in Slot, net \in UpstreamNet, ctype \in RaceHeader, content \in RaceBody :
         DlSend(r, net, ctype, content)
    \/ \E r \in Slot : DlWrite(r)
    \/ \E r \in Slot, out \in CmdOutcome : ConvertDled(r, out)

SpecRace == Init /\ [][NextRace]_vars

\* The inputs of the server in SpecPartial: one ontology that upstream
\* serves as Turtle, requested in a format it has to be converted into, and
\* a converter that succeeds or fails after creating its output file
PartialWant == { "RdfXml", "Html" }
PartialOutcome == { "ok", "partial" }

NextPartial ==
    \/ \E r \in Slot, u \in ReqUri, want \in PartialWant, hint \in ReqHint :
         Start(r, u, want, hint)
    \/ \E r \in Slot : DirCheck(r)
    \/ \E r \in Slot : DirCreate(r)
    \/ \E r \in Slot : Lookup(r)
    \/ \E r \in Slot : SearchOntFiles(r)
    \/ \E r \in Slot, out \in PartialOutcome : ConvertCached(r, out)
    \/ \E r \in Slot, net \in UpstreamNet, ctype \in RaceHeader, content \in UpstreamBody :
         DlSend(r, net, ctype, content)
    \/ \E r \in Slot : DlWrite(r)
    \/ \E r \in Slot, out \in PartialOutcome : ConvertDled(r, out)

SpecPartial == Init /\ [][NextPartial]_vars

\* The inputs of the server in SpecStatus: an upstream server that answers
\* with any status, a page or an ontology, labelled or not
DlStatus == { 200, 404, 500 }
StatusWant == { "Turtle", "Html" }
StatusHeader == { NoHeader, Header(MT("text", "turtle", "")), Header(MT("text", "html", "")) }
StatusBody == { "turtle-bytes", "html-bytes" }

NextStatus ==
    \/ \E r \in DlSlot, u \in ReqUri, want \in StatusWant, hint \in ReqHint :
         Start(r, u, want, hint)
    \/ \E r \in DlSlot : DirCheck(r)
    \/ \E r \in DlSlot : DirCreate(r)
    \/ \E r \in DlSlot : Lookup(r)
    \/ \E r \in DlSlot, status \in DlStatus, net \in DlNet, ctype \in StatusHeader,
          content \in StatusBody :
         DlResponse(r, status, net, ctype, content)
    \/ \E r \in DlSlot : DlWrite(r)
    \/ \E r \in DlSlot, out \in CmdOutcome : ConvertDled(r, out)

SpecStatus == InitDl /\ [][NextStatus]_vars


\* One request at a time: the directory a request finds or creates holds no
\* file another request is converting, so that the loop over the cached
\* files has no turn
NextRequest ==
    \/ \E r \in DlSlot, parts \in RequestParts : Receive(r, parts)
    \/ \E r \in DlSlot : DirCheck(r)
    \/ \E r \in DlSlot : DirCreate(r)
    \/ \E r \in DlSlot : Lookup(r)
    \/ \E r \in DlSlot : SearchOntFiles(r)
    \/ \E r \in DlSlot, net \in UpstreamNet, ctype \in RaceHeader, content \in UpstreamBody :
         DlSend(r, net, ctype, content)
    \/ \E r \in DlSlot : DlWrite(r)
    \/ \E r \in DlSlot, out \in CmdOutcome : ConvertDled(r, out)

SpecRequest == Init /\ [][NextRequest]_vars



(***************************************************************************)
(* The dispatch on every pair of formats, under every availability         *)
(***************************************************************************)

\* Any query: a pair of formats, on a host where any of the commands can
\* be missing
InitSelect ==
    /\ avail = CliCmd
    /\ prefere_conversion = "Download"
    /\ dirs = {}
    /\ files = [d \in { OntDirOf[u] : u \in Uri } |-> EmptyDir]
    /\ req = [r \in Slot |-> IdleReq]
    /\ started = 0
    /\ sel \in { [from |-> from, to |-> to, avail |-> av, res |-> [kind |-> "Pending"]] :
                  from \in Format, to \in Format, av \in SUBSET CliCmd }
    /\ call = NoCall

\* What each converter would make of the file if it were run
ConvertOutcomes == [ConverterName -> { "ok", "fail" }]

\* A call of convert, with the arguments of the query: select_converter,
\* and the converter it returned; str holds what became of the one selected
Convert(outs) ==
    /\ sel.res.kind = "Pending"
    /\ sel.from # None
    /\ sel' = [sel EXCEPT !.res = select_converter(sel.from, sel.to, sel.avail)]
    /\ call' = [NoCall EXCEPT !.fn = "convert", !.fmt = sel.from, !.to = sel.to,
                              !.str = IF sel'.res.kind = "Ok"
                                      THEN outs[sel'.res.converter] ELSE None,
                              !.res = convert(sel.from, sel.to, sel.avail, outs)]
    /\ UNCHANGED <<avail, prefere_conversion, dirs, files, req, started>>

NextSelect ==
    \/ Select
    \/ \E outs \in ConvertOutcomes : Convert(outs)

SpecSelect == InitSelect /\ [][NextSelect]_vars

(***************************************************************************)
(* The functions of the MIME registry, of the cache layout and of the      *)
(* converters, on every format and on strings of every kind                *)
(***************************************************************************)

\* The strings handed to Type::from_str: MIME types without and with
\* parameters, known and unknown, lists of them, and strings that are no
\* MIME types
AcceptStr ==
    { "text/plain", "text/plain; charset=utf-8", "text/plain;charset=utf-8",
      "text/plain;q=0.5,text/plain", "text/plain,text/turtle",
      "text/turtle", "text/turtle;q=0.9", "text/turtle; charset=utf-8",
      "text/html,application/xhtml+xml,application/xml;q=0.9",
      "application/x-unknown,text/turtle",
      "application/x-unknown;q=1,application/rdf+xml;q=0.5,text/turtle",
      "application/xml;q=0.9,text/html",
      "application/x-unknown", "application/x-unknown;q=0.3",
      "application/x-unknown,image/png", "image/png,text/plain",
      "turtle", "text/", "", ",", "text/turtle,", ",text/turtle",
      "text/tur tle,application/ld+json" }

\* The file extensions handed to Type::from_file_ext
ExtStr == { "txt", "", "ndjsonld", "png" } \cup UNION { Range(file_exts(f)) : f \in Format }

\* What process::Command::output gives for an external tool: an io::Error
\* when it can not be spawned (<<"spawn_err", kind>>), or the exit status
\* and the captured stderr of a tool that ran: <<"exited", code, stderr>>,
\* and <<"signaled", "", stderr>> for a tool that a signal ended and that
\* has no exit code
SpawnErr == { <<"spawn_err", "NotFound">>, <<"spawn_err", "PermissionDenied">> }
Stderr == { "", "parse error" }
ExitCode == { "0", "1", "2" }
CmdOutput ==
    SpawnErr \cup { <<"exited", code, err>> : code \in ExitCode, err \in Stderr }
             \cup { <<"signaled", "", err>> : err \in Stderr }

\* ExitStatus::success and ExitStatus::code().unwrap_or(-1)
status_success(output) == output[1] = "exited" /\ output[2] = "0"
status_code(output) == IF output[1] = "exited" THEN output[2] ELSE "-1"

\* The tool ignores its exit status
handle_cli_cmd_output_IgnoreStatus(cmd, output_res) ==
    IF output_res[1] = "spawn_err"
    THEN [path |-> <<cmd>>, ty |-> "ExtCmdFailedToInvoke"]
    ELSE [path |-> << >>, ty |-> "Ok"]

\* handle_cli_cmd_output: the result of an external conversion command
handle_cli_cmd_output(cmd, output_res) ==
    IF output_res[1] = "spawn_err"
    THEN [path |-> <<cmd>>, ty |-> "ExtCmdFailedToInvoke"]
    ELSE IF ~status_success(output_res)
    THEN [path |-> <<cmd, status_code(output_res), output_res[3]>>,
          ty |-> "ExtCmdUnsuccessful"]
    ELSE [path |-> << >>, ty |-> "Ok"]

\* A call with its arguments, before it ran
Call(fn, dir, fmt, str) ==
    [fn |-> fn, dir |-> dir, fmt |-> fmt, to |-> None, str |-> str, res |-> Pending]

InitCall ==
    /\ avail = CliCmd
    /\ prefere_conversion = "Download"
    /\ dirs = {}
    /\ files = [d \in { OntDirOf[u] : u \in Uri } |-> EmptyDir]
    /\ req = [r \in Slot |-> IdleReq]
    /\ started = 0
    /\ sel = NoQuery
    /\ call \in { Call("ont_file", OntDirOf[u], f, None) : u \in Uri, f \in Format }
             \cup { Call(fn, << >>, f, None) :
                       fn \in { "mime_type", "mime_types", "file_ext" }, f \in Format }
             \cup { Call("from_str", << >>, None, m) : m \in AcceptStr }
             \cup { Call("from_file_ext", << >>, None, e) : e \in ExtStr }
             \cup { [Call("supports", << >>, from, c) EXCEPT !.to = to] :
                       c \in ConverterName, from \in Format, to \in Format }
             \cup { Call("cli_cmd", output, None, cmd) : cmd \in CliCmd, output \in CmdOutput }
             \cup { Call("url2fname", u, None, None) : u \in Uri }

\* ont_file of a directory and a format
OntFilePath ==
    /\ call.fn = "ont_file" /\ call.res = Pending
    /\ call' = [call EXCEPT !.res = [path |-> ont_file_path(call.dir, call.fmt), ty |-> "Path"]]
    /\ UNCHANGED <<avail, prefere_conversion, dirs, files, req, started, sel>>

\* A file is written at the path ont_file gave, and the directory is read
\* back: search_ont_files(dir, all = true) lists it or not, and
\* annotate_ont_files (Type::from_path) gives the listed file a format
SearchAnnotate ==
    LET e == ont_file(call.fmt)
        dir == WriteFile(files[call.dir], e, Downloaded("turtle-bytes"))
    IN  /\ call.fn = "ont_file" /\ call.res.ty = "Path"
        /\ files' = [files EXCEPT ![call.dir] = dir]
        /\ \E found \in Orders(OntFilesIn(dir)) :
             call' = [call EXCEPT !.fn = "annotate_ont_files",
                                  !.res = [path |-> found,
                                           ty |-> IF e \in OntFilesIn(dir)
                                                  THEN from_path_by_ext(e)
                                                  ELSE "NotListed"]]
        /\ UNCHANGED <<avail, prefere_conversion, dirs, req, started, sel>>

\* Type::mime_type of a format, whose result is parsed next
MimeType ==
    /\ call.fn = "mime_type"
    /\ call' = [call EXCEPT !.fn = "from_str", !.str = mime_type(call.fmt)]
    /\ UNCHANGED <<avail, prefere_conversion, dirs, files, req, started, sel>>

\* Type::mime_types of a format, any one of which is parsed next
MimeTypes ==
    /\ call.fn = "mime_types"
    /\ \E m \in Range(mime_types(call.fmt)) :
         call' = [call EXCEPT !.fn = "from_str", !.str = m]
    /\ UNCHANGED <<avail, prefere_conversion, dirs, files, req, started, sel>>

\* Type::file_ext of a format, whose result is looked up next
FileExt ==
    /\ call.fn = "file_ext"
    /\ call' = [call EXCEPT !.fn = "from_file_ext", !.str = file_ext(call.fmt)]
    /\ UNCHANGED <<avail, prefere_conversion, dirs, files, req, started, sel>>

\* Type::from_str of a string
FromStr ==
    /\ call.fn = "from_str" /\ call.res = Pending
    /\ call' = [call EXCEPT !.res = [path |-> << >>, ty |-> from_str(call.str)]]
    /\ UNCHANGED <<avail, prefere_conversion, dirs, files, req, started, sel>>

\* Type::from_file_ext of an extension
FromFileExt ==
    /\ call.fn = "from_file_ext" /\ call.res = Pending
    /\ call' = [call EXCEPT !.res = [path |-> << >>, ty |-> from_file_ext(call.str)]]
    /\ UNCHANGED <<avail, prefere_conversion, dirs, files, req, started, sel>>

\* Converter::supports of a registered converter (str) on a pair of formats
Supports ==
    /\ call.fn = "supports" /\ call.res = Pending
    /\ call' = [call EXCEPT !.res =
                   [path |-> << >>,
                    ty |-> IF supports(call.str, call.fmt, call.to) THEN "true" ELSE "false"]]
    /\ UNCHANGED <<avail, prefere_conversion, dirs, files, req, started, sel>>

\* Converter::convert of a registered converter on a pair of formats it
\* supports
ConverterConvert(out) ==
    /\ call.fn = "supports" /\ call.res.ty = "true"
    /\ call' = [call EXCEPT !.fn = "Converter::convert",
                            !.res = [path |-> <<call.str>>,
                                     ty |-> converter_convert(call.str, call.fmt, call.to, out)]]
    /\ UNCHANGED <<avail, prefere_conversion, dirs, files, req, started, sel>>

\* cli_cmd of the conversion crate: the command (str) is run and
\* handle_cli_cmd_output turns its output (dir) into the result
CliCmdOutput ==
    /\ call.fn = "cli_cmd" /\ call.res = Pending
    /\ call' = [call EXCEPT !.res = handle_cli_cmd_output(call.str, call.dir)]
    /\ UNCHANGED <<avail, prefere_conversion, dirs, files, req, started, sel>>

\* url2fname of a URI (dir holds its characters)
Url2Fname ==
    /\ call.fn = "url2fname" /\ call.res = Pending
    /\ call' = [call EXCEPT !.res = [path |-> << >>, ty |-> base_url2fname(call.dir)]]
    /\ UNCHANGED <<avail, prefere_conversion, dirs, files, req, started, sel>>

NextCall ==
    \/ Supports
    \/ SearchAnnotate
    \/ \E out \in CmdOutcome : ConverterConvert(out)
    \/ Url2Fname
    \/ CliCmdOutput
    \/ OntFilePath
    \/ MimeType
    \/ MimeTypes
    \/ FileExt
    \/ FromStr
    \/ FromFileExt

SpecCall == InitCall /\ [][NextCall]_vars


(***************************************************************************)
(* Properties                                                              *)
(***************************************************************************)

\* C1: a finished request whose requested file was in the cache when it
\* started was answered from that file: status 200, the body of that file,
\* no download, no call of a converter, no file written.
C1_CacheHit ==
    \A r \in Slot :
      (req[r].pc = "done" /\ ont_file(req[r].want) \in DOMAIN req[r].cache0) =>
        /\ req[r].dlCount = 0
        /\ req[r].convLog = << >>
        /\ req[r].wrote = {}
        /\ req[r].resp.status = 200
        /\ req[r].resp.body = req[r].cache0[ont_file(req[r].want)]

\* C2: a finished request that prefers conversion, whose requested file was
\* not in the cache when it started while a machine-readable file was that
\* try_convert has an installed command for, has tried to convert a cached
\* file, and, when a conversion succeeded, was answered with status 200 from
\* the written file of the requested format, without a download.
C2_ConvertFromCache ==
    \A r \in Slot :
      ( /\ req[r].pc = "done"
        /\ req[r].pref = "Convert"
        /\ ont_file(req[r].want) \notin DOMAIN req[r].cache0
        /\ \E e \in OntFilesIn(req[r].cache0) :
             convert_cmd(from_path_by_ext(e), req[r].want) \in avail ) =>
        /\ req[r].convLog # << >>
        /\ req[r].convLog[1].at = "cached"
        /\ (\E i \in 1..Len(req[r].convLog) : req[r].convLog[i].how = "ok") =>
             /\ req[r].dlCount = 0
             /\ req[r].resp.status = 200
             /\ req[r].resp.file = ont_file(req[r].want)
             /\ ont_file(req[r].want) \in req[r].wrote

\* C3: a finished request that started on an empty cache, tried no cached
\* file, and downloaded a machine-readable format other than the requested
\* one, for which the registry has an available converter, has made one
\* download, wrote the downloaded file, and ran exactly one converter: the
\* one select_converter returns for the pair; when that one succeeded, the
\* answer is status 200 with the written file of the requested format and
\* the MIME type of the requested format.
C3_DownloadAndConvert ==
    \A r \in Slot :
      ( /\ req[r].pc = "done"
        /\ req[r].cache0 = EmptyDir
        /\ \A i \in 1..Len(req[r].convLog) : req[r].convLog[i].at # "cached"
        /\ req[r].dl.mime_type \notin { None, req[r].want }
        /\ is_machine_readable(req[r].dl.mime_type)
        /\ select_converter(req[r].dl.mime_type, req[r].want, avail).kind = "Ok" ) =>
        /\ req[r].dlCount = 1
        /\ ont_file(req[r].dl.mime_type) \in req[r].wrote
        /\ Len(req[r].convLog) = 1
        /\ req[r].convLog[1].cmd =
             CLI_CMD(select_converter(req[r].dl.mime_type, req[r].want, avail).converter)
        /\ req[r].convLog[1].how = "ok" =>
             /\ req[r].resp.status = 200
             /\ req[r].resp.ctype = mime_type(req[r].want)
             /\ req[r].resp.file = ont_file(req[r].want)
             /\ ont_file(req[r].want) \in req[r].wrote

\* C7: a finished request whose download is in the requested format was
\* answered with status 200, the MIME type of the requested format and the
\* bytes the upstream server sent, and try_convert was not called on the
\* download - also when the format is HTML.
C7_DirectServe ==
    \A r \in Slot :
      (req[r].pc = "done" /\ req[r].dl.mime_type = req[r].want) =>
        /\ req[r].resp.status = 200
        /\ req[r].resp.ctype = mime_type(req[r].want)
        /\ req[r].resp.body.k = "dl"
        /\ req[r].resp.body.b = req[r].upstream.content
        /\ \A i \in 1..Len(req[r].convLog) : req[r].convLog[i].at # "dled"

\* C7, reached: HTML was requested, HTML was downloaded and served.
C7_Witness ==
    \E r \in Slot :
      /\ req[r].pc = "done"
      /\ req[r].want = "Html"
      /\ req[r].dl.mime_type = "Html"
      /\ req[r].resp.status = 200
      /\ req[r].resp.body = Downloaded(req[r].upstream.content)

\* C8: a finished request whose download is HTML, the format that is not
\* machine-readable, while another format was requested, was answered with
\* status 500 for that reason; try_convert was not called on the download,
\* and the request wrote no file of the requested format.
C8_NonMachineReadableDownload ==
    \A r \in Slot :
      ( /\ req[r].pc = "done"
        /\ req[r].dl.mime_type = "Html"
        /\ req[r].want # "Html" ) =>
        /\ ~is_machine_readable(req[r].dl.mime_type)
        /\ req[r].resp.status = 500
        /\ req[r].resp.body.b = "Err:NotMachineReadable"
        /\ \A i \in 1..Len(req[r].convLog) : req[r].convLog[i].at # "dled"
        /\ ont_file(req[r].want) \notin req[r].wrote

\* C8, reached: with only HTML cached and HTML downloaded again, a request
\* for Turtle has ended with status 500.
C8_Witness ==
    \E r \in Slot :
      /\ req[r].pc = "done"
      /\ req[r].want = "Turtle"
      /\ DOMAIN req[r].cache0 = { ont_file("Html") }
      /\ req[r].dl.mime_type = "Html"
      /\ req[r].resp.status = 500


\* C9: in the loop over the cached files, the files are tried in the order
\* of the listing (each turn converts the head of what is left and drops
\* it); a conversion that fails leaves the request unanswered, and the next
\* file is tried, or, after the last one, the download is next; one that
\* succeeds ends the request with status 200 and the file it wrote.
C9_ConvertFromCacheLoop ==
    [][ \A r \in Slot :
          (req[r].pc = "try_convert_cached" /\ req'[r] # req[r]) =>
            LET n == Len(req'[r].convLog)
                last == req'[r].convLog[n]
                d == OntDirOf[req[r].uri]
            IN  /\ n = Len(req[r].convLog) + 1
                /\ last.at = "cached"
                /\ last.from = Head(req[r].todo).mime_type
                /\ req'[r].todo = Tail(req[r].todo)
                /\ last.how = "ok" =>
                     /\ req'[r].pc = "done"
                     /\ req'[r].resp.status = 200
                     /\ req'[r].resp.file = ont_file(req[r].want)
                     /\ req'[r].resp.body = files'[d][ont_file(req[r].want)]
                     /\ req'[r].resp.body.k = "conv"
                /\ last.how # "ok" =>
                     /\ req'[r].resp = NoResp
                     /\ req'[r].pc = IF Tail(req[r].todo) = << >> THEN "dl_send"
                                     ELSE "try_convert_cached"
      ]_vars

\* C9, reached: the conversion of the first cached file failed, the one of
\* the second succeeded and was served, and nothing was downloaded.
C9_Witness ==
    \E r \in Slot :
      /\ req[r].pc = "done"
      /\ Len(req[r].convLog) = 2
      /\ req[r].convLog[1].at = "cached" /\ req[r].convLog[1].how = "fail"
      /\ req[r].convLog[2].at = "cached" /\ req[r].convLog[2].how = "ok"
      /\ req[r].convLog[1].from # req[r].convLog[2].from
      /\ req[r].resp.status = 200
      /\ req[r].dlCount = 0

C4_FirstSignal ==
    \A r \in Slot :
      req[r].upstream.net = "ok" =>
        LET h == req[r].upstream.ctype
            byHeader == IF h.hdr = "mt" /\ h.mt # MEDIA_TYPE_TEXT_PLAIN
                        THEN media_type2type(h.mt) ELSE None
            ext == extract_file_ext(uri_path(req[r].uri))
            byExt == IF ext = None THEN None ELSE from_file_ext(ext)
            sniffed == infer_get(req[r].upstream.content)
            bySniff == IF sniffed = << >> \/ sniffed = << MEDIA_TYPE_TEXT_PLAIN >> THEN None
                       ELSE media_type2type(sniffed[1])
            expected == IF byHeader # None THEN byHeader
                        ELSE IF byExt # None THEN byExt
                        ELSE IF bySniff # None THEN bySniff
                        ELSE req[r].hint
        IN  IF expected # None
            THEN /\ req[r].dl.mime_type = expected
                 /\ req[r].pc = "done" => ont_file(expected) \in req[r].wrote
            ELSE /\ req[r].dl = NoDl
                 /\ req[r].pc = "done"
                 /\ req[r].resp.status = 500
                 /\ req[r].wrote = {}

\* C4, amended: a Content-Type header that is present but unreadable, or
\* names a media type the registry does not list, ends the download with an
\* error, and the request has written no file; only an absent or the
\* generic Content-Type lets the detection go on to the extension of the
\* URI path, then the sniffed format, then the hinted format; with none
\* found the request ends with an error and has written no file.
C4_SignalOrder ==
    \A r \in Slot :
      req[r].upstream.net = "ok" =>
        LET h == req[r].upstream.ctype
            generic == h.hdr = "absent" \/ (h.hdr = "mt" /\ h.mt = MEDIA_TYPE_TEXT_PLAIN)
            byHeader == IF h.hdr = "mt" /\ ~generic THEN media_type2type(h.mt) ELSE None
            ext == extract_file_ext(uri_path(req[r].uri))
            byExt == IF ext = None THEN None ELSE from_file_ext(ext)
            sniffed == infer_get(req[r].upstream.content)
            bySniff == IF sniffed = << >> \/ sniffed = << MEDIA_TYPE_TEXT_PLAIN >> THEN None
                       ELSE media_type2type(sniffed[1])
            expected == IF ~generic THEN byHeader
                        ELSE IF byExt # None THEN byExt
                        ELSE IF bySniff # None THEN bySniff
                        ELSE req[r].hint
        IN  IF expected # None
            THEN /\ req[r].dl.mime_type = expected
                 /\ req[r].pc = "done" => ont_file(expected) \in req[r].wrote
            ELSE /\ req[r].dl = NoDl
                 /\ req[r].pc = "done"
                 /\ req[r].resp.status = 500
                 /\ req[r].wrote = {}

\* C4, reached: a generic Content-Type, a URI path with an unknown
\* extension and a body of a format that is no RDF format leave the
\* detection to the hinted format, and the file of that format was written.
C4_Witness ==
    \E r \in Slot :
      /\ req[r].pc = "done"
      /\ req[r].upstream =
           [status |-> 200, net |-> "ok", ctype |-> Header(MEDIA_TYPE_TEXT_PLAIN),
            content |-> "png-bytes"]
      /\ req[r].uri = UriXy
      /\ req[r].hint = "Turtle"
      /\ req[r].dl.mime_type = "Turtle"
      /\ ont_file("Turtle") \in req[r].wrote

\* C5: the answer to any query is NoConversionRequired for two equal
\* formats (machine-readable or not), else NonMachineReadableSource for a
\* source that is not machine-readable, else a registered converter that
\* supports the pair and is available, or NoConverter exactly when there is
\* none.
C5_DispatchTotality ==
    sel.res.kind # "Pending" =>
      LET able == { c \in ConverterName :
                      supports(c, sel.from, sel.to) /\ is_available(c, sel.avail) }
      IN  IF sel.from = sel.to THEN sel.res = NoConversionRequired
          ELSE IF ~is_machine_readable(sel.from)
               THEN sel.res = NonMachineReadableSource(sel.from)
          ELSE IF able = {} THEN sel.res = NoConverter(sel.from, sel.to)
          ELSE sel.res.kind = "Ok" /\ sel.res.converter \in able

\* C6 as stated: whenever two registered converters A and B both support
\* the pair of a query and A's info is ordered strictly before B's, the
\* answer is A.
C6_FirstOfTwo ==
    sel.res.kind # "Pending" =>
      \A A, B \in ConverterName :
        ( /\ supports(A, sel.from, sel.to)
          /\ supports(B, sel.from, sel.to)
          /\ ConverterLess(A, B) ) => sel.res = SelOk(A)

\* C6, amended: for a machine-readable source and a different target, the
\* answer is, of the registered converters that support the pair and are
\* available, the one whose info is ordered before that of all others; so
\* it is never B when an available A that supports the pair is ordered
\* before B.
C6_EarliestAvailable ==
    (sel.res.kind # "Pending" /\ is_machine_readable(sel.from) /\ sel.from # sel.to) =>
      LET able == { c \in ConverterName :
                      supports(c, sel.from, sel.to) /\ is_available(c, sel.avail) }
      IN  able # {} =>
            /\ sel.res.kind = "Ok"
            /\ sel.res.converter \in able
            /\ \A A \in able \ { sel.res.converter } : ConverterLess(sel.res.converter, A)

\* C6, reached: three available converters support Turtle to RDF/XML, and
\* the answer is the one with the best quality.
C6_Witness ==
    /\ sel.from = "Turtle" /\ sel.to = "RdfXml" /\ sel.avail = CliCmd
    /\ Cardinality({ c \in ConverterName : supports(c, sel.from, sel.to) }) = 3
    /\ sel.res = SelOk("rdf-convert")

(***************************************************************************)
(* Cache files                                                             *)
(***************************************************************************)

\* The names ont_file gives to the files of the formats of the enumeration
OntFileNames == { ont_file(f) : f \in Format }

\* The files of two formats that Type::from_path identifies, by their
\* extension, as the same format are one file
OntFilesApart ==
    \A f, g \in Format :
        ( /\ IsFormat(from_path_by_ext(ont_file(f)))
          /\ from_path_by_ext(ont_file(f)) = from_path_by_ext(ont_file(g)) )
        => ont_file(f) = ont_file(g)

\* C11: after any sequence of requests that starts from an empty cache, no
\* two files of one cache directory are identified as the same format:
\* every file is the file of a format (ont_file), two files that
\* Type::from_path identifies as the same format are one file, and this
\* holds of the files of all the formats of the enumeration
C11_OneFilePerFormat ==
    /\ \A d \in DOMAIN files :
         /\ DOMAIN files[d] \subseteq OntFileNames
         /\ \A e1, e2 \in DOMAIN files[d] :
              ( /\ IsFormat(from_path_by_ext(e1))
                /\ from_path_by_ext(e1) = from_path_by_ext(e2) ) => e1 = e2
    /\ OntFilesApart

\* A request has written, into a directory that now holds files of several
\* formats, a file that was there when the request arrived
C11_Witness ==
    \E r \in Slot :
        /\ req[r].pc = "done"
        /\ Cardinality(DOMAIN files[OntDirOf[req[r].uri]]) >= 2
        /\ \E e \in req[r].wrote : e \in DOMAIN req[r].cache0

\* C12: cache files are write-once: a file that exists in a cache directory
\* is still there after every step of every request, with the content it
\* had before the step
C12_WriteOnce ==
    [][ \A d \in DOMAIN files : \A e \in DOMAIN files[d] :
           /\ e \in DOMAIN files'[d]
           /\ files'[d][e] = files[d][e] ]_vars

\* C13: ont_file is injective in the format: in every directory, the files
\* of two distinct formats are different paths
C13_FileForInjective ==
    (call.fn = "ont_file" /\ call.res # Pending)
    => \A g \in Format \ { call.fmt } : ont_file_path(call.dir, g) # call.res.path

(***************************************************************************)
(* MIME registry                                                           *)
(***************************************************************************)

\* C14: MIME round trip: for every format, Type::from_str of its mime_type
\* is the format, and its mime_type is one of its mime_types
C14_MimeRoundTrip ==
    ( /\ call.fn = "from_str" /\ call.res # Pending
      /\ call.fmt # None /\ call.str = mime_type(call.fmt) )
    => /\ call.res.ty = call.fmt
       /\ call.str \in Range(mime_types(call.fmt))

\* C15: parsing is total on the registered strings: for every format,
\* Type::from_str of each of its mime_types is the format
C15_ParseTotal ==
    ( /\ call.fn = "from_str" /\ call.res # Pending
      /\ call.fmt # None /\ call.str \in Range(mime_types(call.fmt)) )
    => call.res.ty = call.fmt

\* C16: extension round trip: for every format, Type::from_file_ext of its
\* file_ext is the format, and its file_ext is one of its file_exts
C16_ExtRoundTrip ==
    ( /\ call.fn = "from_file_ext" /\ call.res # Pending
      /\ call.fmt # None /\ call.str = file_ext(call.fmt) )
    => /\ call.res.ty = call.fmt
       /\ call.str \in Range(file_exts(call.fmt))

\* text/plain is among the mime_types of no format
TextPlainUnaccepted == \A f \in Format : "text/plain" \notin Range(mime_types(f))

\* C17: text/plain is never resolved to a format: Type::from_str of
\* "text/plain", without or with parameters, is the error CouldBeAny, and
\* text/plain is among the mime_types of no format
C17_AmbiguousTextPlain ==
    /\ ( /\ call.fn = "from_str" /\ call.res # Pending
         /\ MediaType_parse(call.str) # << >>
         /\ essence(MediaType_parse(call.str)[1]) = MEDIA_TYPE_TEXT_PLAIN )
       => call.res.ty = CouldBeAny
    /\ TextPlainUnaccepted

\* "text/plain" with a parameter was parsed
C17_Witness ==
    /\ call.fn = "from_str" /\ call.str = "text/plain; charset=utf-8"
    /\ call.res.ty = CouldBeAny

\* C18: Type::from_str of a comma-separated list: each element is cut at
\* its first ";", and the result is the format of the first element, in the
\* order of the list, that parses to a format; only when no element does,
\* the result is that (the error) of the whole string parsed as one MIME
\* type. So the list of a browser that starts with text/html gives Html,
\* and an unknown type followed by text/turtle gives Turtle
C18_AcceptList ==
    (call.fn = "from_str" /\ call.res # Pending)
    => LET elems == split(call.str, ",")
           cut(i) == Head(split(elems[i], ";"))
           hits == { i \in 1..Len(elems) : from_mime_type(cut(i)) \in Format }
       IN  /\ hits # {} =>
                \E i \in hits : /\ \A j \in hits : i <= j
                                /\ call.res.ty = from_mime_type(cut(i))
           /\ hits = {} => /\ call.res.ty = from_mime_type(call.str)
                           /\ call.res.ty \notin Format
           /\ call.str = "text/html,application/xhtml+xml,application/xml;q=0.9"
                => call.res.ty = "Html"
           /\ call.str = "application/x-unknown,text/turtle"
                => call.res.ty = "Turtle"

\* A list was parsed whose first element is unknown and whose second
\* element is the result
C18_Witness ==
    /\ call.fn = "from_str" /\ call.str = "application/x-unknown,text/turtle"
    /\ call.res.ty = "Turtle"

(***************************************************************************)
(* Converters                                                              *)
(***************************************************************************)

\* C19: no registered converter claims an identity conversion: supports of
\* a converter on a format and the same format is false
C19_NoIdentity ==
    (call.fn = "supports" /\ call.res # Pending /\ call.fmt = call.to)
    => call.res.ty = "false"

(***************************************************************************)
(* Concurrency                                                             *)
(***************************************************************************)

\* C20: requests are not coalesced: every request that does not end at the
\* lookup issues a download of its own (it never waits for, nor takes over,
\* the download of another request), and its write leaves the cache file
\* with the bytes it downloaded itself, whatever another request wrote
\* there before; so of two requests that write the same file, the one
\* whose write completes last determines the content
C20_NoCoalescing ==
    [][ \A r \in Slot :
          (req[r].pc = "dl_write" /\ req'[r].pc # "dl_write")
          => /\ req[r].dlCount = 1
             /\ req[r].upstream.content = req[r].dl.content
             /\ files'[OntDirOf[req[r].uri]][ont_file(req[r].dl.mime_type)]
                  = Downloaded(req[r].dl.content) ]_vars

\* Two requests for the same URI and format, both received while the cache
\* was empty, have both downloaded (different bytes) and both written the
\* same file, which holds the bytes of the second one
C20_Witness ==
    /\ req[1].pc = "done" /\ req[2].pc = "done"
    /\ req[1].uri = req[2].uri /\ req[1].want = req[2].want
    /\ req[1].cache0 = EmptyDir /\ req[2].cache0 = EmptyDir
    /\ req[1].dlCount = 1 /\ req[2].dlCount = 1
    /\ req[1].wrote = { ont_file(req[1].want) } /\ req[2].wrote = req[1].wrote
    /\ req[1].dl.content # req[2].dl.content
    /\ files[OntDirOf[req[1].uri]][ont_file(req[1].want)] = Downloaded(req[2].dl.content)

\* C21: a finished request that started with a partial file, left behind by
\* a failed conversion, at the place of its requested format was answered
\* from that file by its cache lookup: status 200, the partial content, no
\* download and no call of a converter.
C21_PartialServed ==
    \A r \in Slot :
      ( /\ req[r].pc = "done"
        /\ ont_file(req[r].want) \in DOMAIN req[r].cache0
        /\ req[r].cache0[ont_file(req[r].want)].k = "partial" ) =>
        /\ req[r].dlCount = 0
        /\ req[r].convLog = << >>
        /\ req[r].resp.status = 200
        /\ req[r].resp.body = req[r].cache0[ont_file(req[r].want)]

\* The partial file stays where the failed conversion left it
C21_PartialStays ==
    \E r \in Slot :
      /\ req[r].pc = "done"
      /\ req[r].convLog # << >>
      /\ req[r].convLog[Len(req[r].convLog)].how = "partial"
      /\ req[r].resp.status = 500
      /\ FilesOf(OntDirOf[req[r].uri])[ont_file(req[r].want)].k = "partial"

\* C22: a received request without the parameter uri is answered 404, and
\* one whose uri is not an absolute URL is answered 415, whatever its Accept
\* header and its parameter query-accept are; either is finished without a
\* download, a conversion or a file written.
C22_UriRejections ==
    \A r \in Slot :
      (req[r].parts.rec /\ ~(req[r].parts.uri.present /\ Url_parse_ok(req[r].parts.uri.str))) =>
        /\ req[r].pc = "done"
        /\ req[r].resp.status = IF req[r].parts.uri.present THEN 415 ELSE 404
        /\ req[r].dlCount = 0
        /\ req[r].convLog = << >>
        /\ req[r].wrote = {}

\* C22, the part that holds: a request the extractor rejects leaves the
\* cache as it was (no directory created, no file written)
C22_RejectionLeavesCache ==
    [][\A r \in Slot :
         (req'[r] # req[r] /\ req'[r].parts.rec /\ req'[r].pc = "done"
            /\ req'[r].resp.status \in {404, 415} /\ req'[r].dlCount = 0)
           => (dirs' = dirs /\ files' = files)]_vars

\* C23: a call of cli_cmd that returned ended in exactly one of three
\* outcomes: Ok when the tool exited with status zero, ExtCmdUnsuccessful
\* with the exit code and the captured stderr when it ran and did not
\* succeed, ExtCmdFailedToInvoke when it could not be spawned.
C23_CliOutcomes ==
    (call.fn = "cli_cmd" /\ call.res # Pending) =>
      /\ call.res.ty \in { "Ok", "ExtCmdUnsuccessful", "ExtCmdFailedToInvoke" }
      /\ call.res.ty = "Ok" <=> (call.dir[1] = "exited" /\ call.dir[2] = "0")
      /\ call.res.ty = "ExtCmdFailedToInvoke" <=> call.dir \in SpawnErr
      /\ call.res.ty = "ExtCmdFailedToInvoke" => call.res.path = <<call.str>>
      /\ call.res.ty = "ExtCmdUnsuccessful" =>
            /\ call.dir[1] \in { "exited", "signaled" }
            /\ call.res.path[1] = call.str
            /\ call.dir[1] = "exited" => call.res.path[2] = call.dir[2]
            /\ call.res.path[3] = call.dir[3]

C23_Witness ==
    /\ call.fn = "cli_cmd"
    /\ call.dir = <<"exited", "2", "parse error">>
    /\ call.res = [path |-> <<"rdfx", "2", "parse error">>, ty |-> "ExtCmdUnsuccessful"]

\* C24: the slug url2fname makes of a URI has the length of the URI, with
\* every character of [A-Za-z0-9] kept in its place and every other
\* character replaced by one "_".
C24_SlugOneForOne ==
    (call.fn = "url2fname" /\ call.res # Pending) =>
      /\ Len(call.res.ty) = Len(call.dir)
      /\ \A i \in 1..Len(call.dir) :
            CharAt(call.res.ty, i) = IF call.dir[i] \in BasicChars THEN call.dir[i] ELSE "_"

\* C25: every call of try_convert a request has made, on a cached file or
\* on the downloaded one, had a source format other than the wanted format.
C25_SourceDiffers ==
    \A r \in Slot : \A i \in 1..Len(req[r].convLog) :
      req[r].convLog[i].from # req[r].convLog[i].to

\* C25, for the downloaded file alone: dl_ont's file in the wanted format is
\* served as it is, so that try_convert on it has another source format
C25_DledSourceDiffers ==
    \A r \in Slot : \A i \in 1..Len(req[r].convLog) :
      req[r].convLog[i].at = "dled" => req[r].convLog[i].from # req[r].convLog[i].to

\* C26: a call of convert ran the converter select_converter returns for the
\* pair and no other, and its result is the result of that converter; when
\* select_converter fails no converter was run and its error is the result.
C26_ConvertIsSelected ==
    call.fn = "convert" =>
      IF sel.res.kind = "Ok"
      THEN /\ call.res.path = <<sel.res.converter>>
           /\ call.res.ty = converter_convert(sel.res.converter, sel.from, sel.to, call.str)
      ELSE /\ call.res.path = << >>
           /\ call.res.ty = sel.res.kind

\* C26, reached: the selected converter failed while another converter that
\* supports the pair was available, and its error is the result
C26_Witness ==
    /\ call.fn = "convert"
    /\ sel.from = "Turtle" /\ sel.to = "RdfXml" /\ sel.avail = CliCmd
    /\ call.str = "fail"
    /\ call.res = [path |-> <<"rdf-convert">>, ty |-> "Err:rdf-convert"]
    /\ Cardinality(Candidates(sel.from, sel.to, sel.avail)) > 1

\* C29: Converter::convert of a registered converter on a pair of formats
\* it supports builds its arguments, and so returns and does not panic.
C29_SupportedNeverPanics ==
    call.fn = "Converter::convert" => call.res.ty # "panic"

\* C27: whatever the status of the upstream response, a body that was
\* received and whose format was detected is handed on in that format,
\* written to the file of that format, and, when that is the requested
\* format, returned with status 200.
C27_StatusIgnored ==
    \A r \in DlSlot :
      LET up == req[r].upstream
          hdr == resp_rdf_mime_type_opt(up.ctype)
          fmt == resp_rdf_mime_type(up.ctype, req[r].uri, up.content, req[r].hint)
      IN  ( /\ req[r].dlCount > 0
            /\ up.net = "ok"
            /\ (hdr = None \/ IsFormat(hdr))
            /\ IsFormat(fmt) ) =>
            /\ req[r].dl = [mime_type |-> fmt, content |-> up.content]
            /\ req[r].pc # "dl_write" =>
                  /\ ont_file(fmt) \in req[r].wrote
                  /\ FilesOf(OntDirOf[req[r].uri])[ont_file(fmt)] = Downloaded(up.content)
            /\ (req[r].pc = "done" /\ fmt = req[r].want) =>
                  /\ req[r].resp.status = 200
                  /\ req[r].resp.body = Downloaded(up.content)

\* C27, reached: the page of a 404 response was written to ontology.html
\* and returned as the ontology
C27_Witness ==
    \E r \in DlSlot :
      /\ req[r].pc = "done"
      /\ req[r].upstream.status = 404
      /\ req[r].upstream.content = "html-bytes"
      /\ req[r].want = "Html"
      /\ req[r].resp.status = 200
      /\ req[r].resp.body = Downloaded("html-bytes")
      /\ FilesOf(OntDirOf[req[r].uri])[ont_file("Html")] = Downloaded("html-bytes")

\* C28: of the requests for one URI, at most one was told by
\* ensure_dir_exists that it created the directory (ont_might_be_cached).
C28_OneCreator ==
    \A r1, r2 \in Slot :
      (r1 # r2 /\ req[r1].uri = req[r2].uri) => ~(req[r1].might /\ req[r2].might)

\* C30: the file written at the path ont_file gives for a format is listed
\* by search_ont_files(dir, all = true), and annotate_ont_files identifies
\* it as that format.
C30_CacheRoundTrip ==
    call.fn = "annotate_ont_files" =>
      /\ ont_file(call.fmt) \in Range(call.res.path)
      /\ call.res.ty = call.fmt

====
